---------------------------- MODULE Spec2Model ----------------------------
(***************************************************************************)
(* Model of the aggregation-and-layout pipeline of the upskill dashboard:  *)
(* the label normalizer (getProjectNameFromPath), the XP and skills bar    *)
(* charts (processData / render) and the activity heatmap                  *)
(* (fetchGithubLikeActivity / displayActivity).                            *)
(*                                                                         *)
(* JavaScript strings are sequences of one-character strings, so that      *)
(* split, replace, charAt and toUpperCase are computed and not assumed.    *)
(* A JavaScript object used as a map is the sequence of its own            *)
(* properties in insertion order; Object.entries applies the property      *)
(* order of the language (integer keys first, ascending).                  *)
(***************************************************************************)
EXTENDS Integers, Sequences, FiniteSets, TLC

VARIABLES
    path,           \* argument handed to getProjectNameFromPath
    label,          \* its return value
    labelDone,      \* TRUE once getProjectNameFromPath has returned
    transactions,   \* userDataModel.data.transactions
    skills,         \* userDataModel.data.skills
    viewport,       \* clientWidth and height attribute of the svg elements
    xpSurface,      \* content of the XP chart svg element
    skillsSurface,  \* content of the skills chart svg element
    thrown,         \* the exception the last render call let escape, if any
    progresses,     \* createdAt instants the activity query returns
    clock,          \* the instant new Date() reads
    tz,             \* the time zone of the browser
    activity,       \* userDataModel.data.activity
    heatmap,        \* content of the activityHeatmap container
    axisMax,        \* the maximum the Y axis and the scale are built for
    axisHeight,     \* height of the chart area they are built for
    yAxis,          \* the ticks renderYAxis produced, if it ran
    scaled,         \* the value scaleY was applied to and its result, if any
    userLogin,      \* login of the current user
    groups,         \* the groups of the user the query returns, each the
                    \* list of the logins of its member entries
    collaborators,  \* userDataModel.data.collaborators
    friendsLoaded,  \* TRUE once loadCollaborators has stored a result
    now,            \* the time, in ticks
    timeout,        \* the timer id the debounced function holds, 0 if none
    timers,         \* the timers setTimeout has scheduled and not yet run
    calls,          \* the calls of the debounced function so far
    runs,           \* the runs of the wrapped function so far
    storedToken,    \* the 'jwtToken' entry of localStorage
    apiToken,       \* apiService.token
    loginPageHidden,    \* the login page carries the class hidden
    profilePageHidden,  \* the profile page carries the class hidden
    profileView,    \* spinner and main content: "markup", "loading", "shown"
    mainContentError,   \* the error written into the main content, if any
    loginButton,    \* text and disabled flag of the login button
    loginError,     \* hidden flag and text of the login error element
    loginPending,   \* a handleLogin call awaits authenticate
    data,           \* userDataModel.data
    lastFetchedDataForResize,   \* the resize cache of the application
    loads,          \* the loaders the loadProfileData calls in flight await
    chartInput,     \* the lists generateCharts last handed to render
    piscinePanel,   \* content of piscineGoDetails and piscineJsDetails
    projectsTable,  \* rows of the projects table
    step            \* what the last handler of the session did

labelVars == <<path, label, labelDone>>
chartVars == <<transactions, skills, viewport, xpSurface, skillsSurface, thrown>>
activityVars == <<progresses, clock, tz, activity, heatmap>>
axisVars == <<axisMax, axisHeight, yAxis, scaled>>
friendVars == <<userLogin, groups, collaborators, friendsLoaded>>
debounceVars == <<now, timeout, timers, calls, runs>>
sessionVars ==
    <<storedToken, apiToken, loginPageHidden, profilePageHidden, profileView,
      mainContentError, loginButton, loginError, loginPending, data,
      lastFetchedDataForResize, loads, chartInput, piscinePanel,
      projectsTable, step>>
vars ==
    <<labelVars, chartVars, activityVars, axisVars, friendVars, debounceVars,
      sessionVars>>

---------------------------------------------------------------------------
(* Bounds of the model. *)

\* longest path, in segments, handed to the label normalizer
MaxSegs == 3

---------------------------------------------------------------------------
(* Strings. *)

LowerCase == <<"a","b","c","d","e","f","g","h","i","j","k","l","m",
               "n","o","p","q","r","s","t","u","v","w","x","y","z">>

UpperCase == <<"A","B","C","D","E","F","G","H","I","J","K","L","M",
               "N","O","P","Q","R","S","T","U","V","W","X","Y","Z">>

Digits == <<"0","1","2","3","4","5","6","7","8","9">>

\* String.prototype.toUpperCase on one character
ToUpperCase(c) ==
    IF \E i \in 1..Len(LowerCase) : LowerCase[i] = c
    THEN UpperCase[CHOOSE i \in 1..Len(LowerCase) : LowerCase[i] = c]
    ELSE c

IsDigit(c) == \E i \in 1..Len(Digits) : Digits[i] = c

\* the regular expression /^\d+$/
IsNumeric(s) == Len(s) > 0 /\ \A i \in 1..Len(s) : IsDigit(s[i])

\* String.prototype.split with a one-character separator
RECURSIVE SplitFrom(_, _, _, _)
SplitFrom(s, sep, i, cur) ==
    IF i > Len(s) THEN <<cur>>
    ELSE IF s[i] = sep THEN <<cur>> \o SplitFrom(s, sep, i + 1, <<>>)
    ELSE SplitFrom(s, sep, i + 1, Append(cur, s[i]))

Split(s, sep) == SplitFrom(s, sep, 1, <<>>)

\* Array.prototype.join with a one-character separator
RECURSIVE Join(_, _)
Join(parts, sep) ==
    IF Len(parts) = 0 THEN <<>>
    ELSE IF Len(parts) = 1 THEN parts[1]
    ELSE parts[1] \o <<sep>> \o Join(Tail(parts), sep)

StartsWith(s, p) == Len(s) >= Len(p) /\ SubSeq(s, 1, Len(p)) = p

\* String.prototype.replace with an anchored literal, /^p/
ReplacePrefix(s, p) ==
    IF StartsWith(s, p) THEN SubSeq(s, Len(p) + 1, Len(s)) ELSE s

UnknownProject ==
    <<"U","n","k","n","o","w","n"," ","P","r","o","j","e","c","t">>

UnnamedProject ==
    <<"U","n","n","a","m","e","d"," ","P","r","o","j","e","c","t">>

PiscinePrefix == <<"p","i","s","c","i","n","e","-">>

QuestPrefix == <<"q","u","e","s","t","-">>

---------------------------------------------------------------------------
(* getProjectNameFromPath *)

\* a path is null (or undefined), or a string
NullPath == [isNull |-> TRUE, str |-> <<>>]

StrPath(s) == [isNull |-> FALSE, str |-> s]

\* parts[i] || "Unnamed Project"
PartOrUnnamed(part) == IF part = <<>> THEN UnnamedProject ELSE part

\* the segment the name is taken from: the last one, or the one before it
\* when the last one is numeric
ChosenSegment(parts) ==
    LET projectName == PartOrUnnamed(parts[Len(parts)])
    IN  IF (projectName = <<>> \/ IsNumeric(projectName)) /\ Len(parts) > 1
        THEN PartOrUnnamed(parts[Len(parts) - 1])
        ELSE projectName

\* a variant that strips the first prefix only
StripPrefixesPiscineOnly(name) == ReplacePrefix(name, PiscinePrefix)

\* .replace(/^piscine-/, '').replace(/^quest-/, '')
StripPrefixes(name) ==
    ReplacePrefix(ReplacePrefix(name, PiscinePrefix), QuestPrefix)

\* word.charAt(0).toUpperCase() + word.slice(1)
Capitalize(word) ==
    IF word = <<>> THEN <<>> ELSE <<ToUpperCase(word[1])>> \o Tail(word)

\* .split('-').map(capitalize).join(' ')
FormatName(name) ==
    LET words == Split(name, "-")
    IN  Join([i \in 1..Len(words) |-> Capitalize(words[i])], " ")

GetProjectNameFromPath(p) ==
    IF p.isNull \/ p.str = <<>> THEN UnknownProject
    ELSE FormatName(StripPrefixes(ChosenSegment(Split(p.str, "/"))))

---------------------------------------------------------------------------
(* Inputs of the label normalizer. *)

Segments ==
    { <<>>,
      <<"4","2">>,
      <<"g","o">>,
      <<"p","i","s","c","i","n","e","-","g","o">>,
      <<"q","u","e","s","t","-","0","1">>,
      <<"p","i","s","c","i","n","e","-">>,
      <<"-">>,
      <<"m","y","-","a","p","p">> }

SegmentLists == UNION { [1..n -> Segments] : n \in 1..MaxSegs }

PathInputs == {NullPath} \cup { StrPath(Join(segs, "/")) : segs \in SegmentLists }

---------------------------------------------------------------------------
(* A JavaScript object used as a map from string keys to numbers. *)

\* the own properties, in insertion order
EmptyObject == <<>>

HasOwn(obj, k) == \E i \in 1..Len(obj) : obj[i].key = k

OwnIndex(obj, k) == CHOOSE i \in 1..Len(obj) : obj[i].key = k

\* obj[k] = v on an own or a new property
SetOwn(obj, k, v) ==
    IF HasOwn(obj, k)
    THEN [obj EXCEPT ![OwnIndex(obj, k)] = [key |-> k, value |-> v]]
    ELSE Append(obj, [key |-> k, value |-> v])

\* "__proto__": reading it yields Object.prototype, and assigning a value
\* that is not an object to it changes nothing
ProtoKey == <<"_","_","p","r","o","t","o","_","_">>

RECURSIVE NumberOf(_)
NumberOf(s) ==
    IF Len(s) = 0 THEN 0
    ELSE 10 * NumberOf(SubSeq(s, 1, Len(s) - 1))
         + ((CHOOSE i \in 1..Len(Digits) : Digits[i] = s[Len(s)]) - 1)

\* an integer index: the canonical decimal form of an integer below 2^32 - 1
IsArrayIndex(k) ==
    /\ IsNumeric(k)
    /\ Len(k) <= 9
    /\ (Len(k) = 1 \/ k[1] # "0")

\* Object.entries: integer keys in ascending numeric order, then the other
\* keys in insertion order
ObjectEntries(obj) ==
    LET idx == { i \in 1..Len(obj) : IsArrayIndex(obj[i].key) }
        rank(i) == Cardinality({ j \in idx : NumberOf(obj[j].key) < NumberOf(obj[i].key) })
        ints == [k \in 1..Cardinality(idx) |-> obj[CHOOSE i \in idx : rank(i) = k - 1]]
    IN  ints \o SelectSeq(obj, LAMBDA e : ~IsArrayIndex(e.key))

\* Array.prototype.sort((a, b) => b.value - a.value): descending by value,
\* stable, so entries of equal value keep their order
SortDescending(s) ==
    LET n == Len(s)
        rank(i) == Cardinality({ j \in 1..n :
                        \/ s[j].value > s[i].value
                        \/ (s[j].value = s[i].value /\ j < i) })
    IN  [k \in 1..n |-> s[CHOOSE i \in 1..n : rank(i) = k - 1]]

\* a variant that keeps every entry
SliceAll(s, n) == s

\* Array.prototype.slice(0, n)
Slice(s, n) == SubSeq(s, 1, IF Len(s) < n THEN Len(s) ELSE n)

\* a variant that never yields 0
MaxOrOne(s) ==
    IF \E i \in 1..Len(s) : s[i].value > 0
    THEN s[CHOOSE i \in 1..Len(s) : \A j \in 1..Len(s) : s[j].value <= s[i].value].value
    ELSE 1

\* Math.max(...values, 0)
MaxOrZero(s) ==
    IF \E i \in 1..Len(s) : s[i].value > 0
    THEN s[CHOOSE i \in 1..Len(s) : \A j \in 1..Len(s) : s[j].value <= s[i].value].value
    ELSE 0

---------------------------------------------------------------------------
(* The svg surface of a chart: what its element holds. *)

BlankSurface ==
    [message |-> "", labels |-> <<>>, ticks |-> <<>>, bars |-> <<>>,
     title |-> "", gradient |-> ""]

\* a variant that leaves in place what the element held
KeepSurface(surface) == surface

\* innerHTML = '': whatever the element held is removed
ClearSurface(surface) == BlankSurface

\* renderEmptyState: innerHTML is replaced by one <text> holding the message
RenderEmptyState(message) == [BlankSurface EXCEPT !.message = message]

\* the top-N limit of both charts
TopN == 10

\* number of Y axis ticks above zero
NumTicks == 5

\* Math.round((maxValue / numTicks) * i), for a maximum that is not negative
TickValue(maxValue, i) == (2 * maxValue * i + NumTicks) \div (2 * NumTicks)

\* a variant that divides by the maximum as it is
YAxisTicksUnguarded(maxV, height) ==
    [k \in 1..(NumTicks + 1) |->
        [value |-> TickValue(maxV, k - 1),
         yNum |-> TickValue(maxV, k - 1) * height,
         den |-> maxV]]

\* the grid lines and tick labels: yPos = chartHeight - yNum / den
YAxisTicks(maxValue, chartHeight) ==
    [k \in 1..(NumTicks + 1) |->
        [value |-> TickValue(maxValue, k - 1),
         yNum |-> TickValue(maxValue, k - 1) * chartHeight,
         den |-> IF maxValue = 0 THEN 1 ELSE maxValue]]

\* scaleY of the XP chart: val => chartHeight - (val / (maxXP || 1)) * chartHeight,
\* the position chartHeight - num / den
ScaleY(val, maxXP, chartHeight) ==
    [value |-> val,
     num |-> val * chartHeight,
     den |-> IF maxXP = 0 THEN 1 ELSE maxXP]

\* a variant that appends "..." to a full budget of characters
EllipsisAfterBudget(text, budget, keep) ==
    IF Len(text) > budget THEN SubSeq(text, 1, budget) \o <<".", ".", ".">> ELSE text

\* label text past the budget: the first keep characters and "..."
Ellipsis(text, budget, keep) ==
    IF Len(text) > budget THEN SubSeq(text, 1, keep) \o <<".", ".", ".">> ELSE text

---------------------------------------------------------------------------
(* XpChartComponent *)

\* a transaction: type "" stands for an absent type, isNum for
\* typeof amount === 'number'
XpFilter(tx) ==
    /\ (tx.type = "" \/ tx.type = "xp")
    /\ tx.isNum
    /\ tx.amount > 0

\* projectXP[name] = (projectXP[name] || 0) + amount
XpAccumulate(obj, name, amount) ==
    IF HasOwn(obj, name)
    THEN SetOwn(obj, name, obj[OwnIndex(obj, name)].value + amount)
    ELSE IF name = ProtoKey
    THEN obj
    ELSE SetOwn(obj, name, amount)

RECURSIVE XpProcessFrom(_, _, _)
XpProcessFrom(txs, i, obj) ==
    IF i > Len(txs) THEN obj
    ELSE XpProcessFrom(txs, i + 1,
            IF XpFilter(txs[i])
            THEN XpAccumulate(obj, GetProjectNameFromPath(txs[i].path), txs[i].amount)
            ELSE obj)

XpProcessData(txs) == XpProcessFrom(txs, 1, EmptyObject)

XpMargin == [top |-> 40, right |-> 30, bottom |-> 120, left |-> 70]

XpDefaultWidth == 500

XpDefaultHeight == 380

\* a variant that accepts a chart area of width or height 0
XpCalculateDimensionsStrict(v) ==
    LET svgWidth == IF v.clientWidth = 0 THEN XpDefaultWidth ELSE v.clientWidth
        svgHeight == IF v.heightAttr = 0 THEN XpDefaultHeight ELSE v.heightAttr
        chartWidth == svgWidth - XpMargin.left - XpMargin.right
        chartHeight == svgHeight - XpMargin.top - XpMargin.bottom
    IN  [isNull |-> chartWidth < 0 \/ chartHeight < 0,
         svgWidth |-> svgWidth, svgHeight |-> svgHeight,
         chartWidth |-> chartWidth, chartHeight |-> chartHeight]

\* calculateDimensions: a clientWidth or height attribute of 0 (or a missing
\* one) falls back to the default; isNull stands for the null result
XpCalculateDimensions(v) ==
    LET svgWidth == IF v.clientWidth = 0 THEN XpDefaultWidth ELSE v.clientWidth
        svgHeight == IF v.heightAttr = 0 THEN XpDefaultHeight ELSE v.heightAttr
        chartWidth == svgWidth - XpMargin.left - XpMargin.right
        chartHeight == svgHeight - XpMargin.top - XpMargin.bottom
    IN  [isNull |-> chartWidth <= 0 \/ chartHeight <= 0,
         svgWidth |-> svgWidth, svgHeight |-> svgHeight,
         chartWidth |-> chartWidth, chartHeight |-> chartHeight]

\* renderXAxisLabels: x = xNum / den, the centre of slot i
XpAxisLabels(top, chartWidth) ==
    LET n == Len(top)
    IN  [k \in 1..n |->
            [text |-> Ellipsis(top[k].key, 15, 12),
             xNum |-> 20 * n * XpMargin.left + (20 * (k - 1) + 3 + 7) * chartWidth,
             den |-> 20 * n]]

\* a variant that leaves the whole padding of a slot before its bar
XpBarsPaddingBefore(top, chartWidth, chartHeight, maxXP) ==
    LET n == Len(top)
    IN  [k \in 1..n |->
            [label |-> top[k].key, value |-> top[k].value,
             xNum |-> 20 * n * XpMargin.left + (20 * (k - 1) + 6) * chartWidth,
             wNum |-> IF 14 * chartWidth < 0 THEN 0 ELSE 14 * chartWidth,
             den |-> 20 * n,
             yNum |-> top[k].value * chartHeight,
             hNum |-> IF top[k].value * chartHeight < 0 THEN 0
                      ELSE top[k].value * chartHeight,
             hDen |-> IF maxXP = 0 THEN 1 ELSE maxXP]]

\* renderBars: x = xNum / den, width = wNum / den, height = hNum / hDen
\* (clamped to 0), y = margin.top + chartHeight - yNum / hDen (not clamped)
XpBars(top, chartWidth, chartHeight, maxXP) ==
    LET n == Len(top)
    IN  [k \in 1..n |->
            [label |-> top[k].key, value |-> top[k].value,
             xNum |-> 20 * n * XpMargin.left + (20 * (k - 1) + 3) * chartWidth,
             wNum |-> IF 14 * chartWidth < 0 THEN 0 ELSE 14 * chartWidth,
             den |-> 20 * n,
             yNum |-> top[k].value * chartHeight,
             hNum |-> IF top[k].value * chartHeight < 0 THEN 0
                      ELSE top[k].value * chartHeight,
             hDen |-> IF maxXP = 0 THEN 1 ELSE maxXP]]

\* render, after processData: the surface the call leaves, given the one it found
XpLayout(prev, projects, v) ==
    IF Len(projects) = 0
    THEN RenderEmptyState("No project XP data available")
    ELSE
        LET topProjects == Slice(SortDescending(projects), TopN)
            cleared == ClearSurface(prev)
            dims == XpCalculateDimensions(v)
            maxXP == MaxOrZero(topProjects)
        IN  IF dims.isNull
            THEN RenderEmptyState("Chart cannot be rendered (too small).")
            ELSE IF maxXP = 0
            THEN RenderEmptyState("All projects have 0 XP")
            ELSE [cleared EXCEPT
                    !.labels = cleared.labels \o XpAxisLabels(topProjects, dims.chartWidth),
                    !.ticks = cleared.ticks \o YAxisTicks(maxXP, dims.chartHeight),
                    !.title = "XP Amount",
                    !.bars = cleared.bars
                             \o XpBars(topProjects, dims.chartWidth, dims.chartHeight, maxXP),
                    !.gradient = "barGradient"]

XpRenderResult(prev, txs, v) ==
    XpLayout(prev, ObjectEntries(XpProcessData(txs)), v)

---------------------------------------------------------------------------
(* SkillsChartComponent *)

SkillPrefix == <<"s","k","i","l","l","_">>

\* skill.type.replace on a record without a type raises a TypeError
SkillsProcessDataThrows(sks) == \E i \in 1..Len(sks) : ~sks[i].hasType

\* if (!skillsMap[t] || skillsMap[t] < amount) skillsMap[t] = amount
SkillsAccumulate(obj, t, amount) ==
    IF HasOwn(obj, t)
    THEN IF obj[OwnIndex(obj, t)].value = 0 \/ obj[OwnIndex(obj, t)].value < amount
         THEN SetOwn(obj, t, amount)
         ELSE obj
    ELSE IF t = ProtoKey
    THEN obj
    ELSE SetOwn(obj, t, amount)

RECURSIVE SkillsProcessFrom(_, _, _)
SkillsProcessFrom(sks, i, obj) ==
    IF i > Len(sks) THEN obj
    ELSE SkillsProcessFrom(sks, i + 1,
            SkillsAccumulate(obj, ReplacePrefix(sks[i].type, SkillPrefix), sks[i].amount))

\* processData: the skill objects {type, amount} are the records
\* [key, value], sorted by amount and cut to the top ten
SkillsProcessData(sks) ==
    LET entries == ObjectEntries(SkillsProcessFrom(sks, 1, EmptyObject))
        rebuilt == [k \in 1..Len(entries) |->
                       [key |-> SkillPrefix \o entries[k].key,
                        value |-> entries[k].value]]
    IN  Slice(SortDescending(rebuilt), TopN)

SkillsMargin == [top |-> 40, right |-> 30, bottom |-> 100, left |-> 70]

SkillsDefaultWidth == 500

SkillsDefaultHeight == 400

SkillsCalculateDimensions(v) ==
    LET svgWidth == IF v.clientWidth = 0 THEN SkillsDefaultWidth ELSE v.clientWidth
        svgHeight == IF v.heightAttr = 0 THEN SkillsDefaultHeight ELSE v.heightAttr
        chartWidth == svgWidth - SkillsMargin.left - SkillsMargin.right
        chartHeight == svgHeight - SkillsMargin.top - SkillsMargin.bottom
    IN  [isNull |-> chartWidth <= 0 \/ chartHeight <= 0,
         svgWidth |-> svgWidth, svgHeight |-> svgHeight,
         chartWidth |-> chartWidth, chartHeight |-> chartHeight]

\* String.prototype.replace(/c/g, ' ')
ReplaceAll(str, c) == [i \in 1..Len(str) |-> IF str[i] = c THEN " " ELSE str[i]]

\* the axis label of a skill: prefix removed, '_' and '-' turned into
\* spaces, words capitalized, cut to the budget
SkillName(type) ==
    LET plain == ReplaceAll(ReplaceAll(ReplacePrefix(type, SkillPrefix), "_"), "-")
        words == Split(plain, " ")
    IN  Ellipsis(Join([i \in 1..Len(words) |-> Capitalize(words[i])], " "), 12, 9)

\* renderBarsAndLabels, inside the group translated by the margins
SkillsAxisLabels(agg, chartWidth) ==
    LET n == Len(agg)
    IN  [k \in 1..n |->
            [text |-> SkillName(agg[k].key),
             xNum |-> (20 * (k - 1) + 3 + 7) * chartWidth,
             den |-> 20 * n]]

\* the bars: x, width and height as for the XP chart,
\* y = chartHeight - yNum / hDen (not clamped)
SkillsBars(agg, chartWidth, chartHeight, maxAmount) ==
    LET n == Len(agg)
    IN  [k \in 1..n |->
            [label |-> agg[k].key, value |-> agg[k].value,
             xNum |-> (20 * (k - 1) + 3) * chartWidth,
             wNum |-> IF 14 * chartWidth < 0 THEN 0 ELSE 14 * chartWidth,
             den |-> 20 * n,
             yNum |-> agg[k].value * chartHeight,
             hNum |-> IF agg[k].value * chartHeight < 0 THEN 0
                      ELSE agg[k].value * chartHeight,
             hDen |-> IF maxAmount = 0 THEN 1 ELSE maxAmount]]

SkillsLayout(prev, agg, v) ==
    IF Len(agg) = 0
    THEN RenderEmptyState("No skill data to display.")
    ELSE
        LET cleared == ClearSurface(prev)
            dims == SkillsCalculateDimensions(v)
            maxAmount == MaxOrZero(agg)
        IN  IF dims.isNull
            THEN RenderEmptyState("Chart cannot be rendered (too small).")
            ELSE IF maxAmount = 0
            THEN RenderEmptyState("All skills have 0% progress.")
            ELSE [cleared EXCEPT
                    !.labels = cleared.labels \o SkillsAxisLabels(agg, dims.chartWidth),
                    !.bars = cleared.bars
                             \o SkillsBars(agg, dims.chartWidth, dims.chartHeight, maxAmount),
                    !.ticks = cleared.ticks \o YAxisTicks(maxAmount, dims.chartHeight),
                    !.title = "Skill Level (%)",
                    !.gradient = "skillBarGradient"]

\* render, for data on which processData does not throw
SkillsRenderResult(prev, sks, v) ==
    IF Len(sks) = 0
    THEN RenderEmptyState("No skills data available.")
    ELSE SkillsLayout(prev, SkillsProcessData(sks), v)

---------------------------------------------------------------------------
(* Inputs of the charts. *)

\* longest list of arbitrary records handed to a chart
MaxRecords == 2

\* longest list of records with pairwise distinct labels
MaxLabels == 12

Tx(type, isNum, amount, p) ==
    [type |-> type, isNum |-> isNum, amount |-> amount, path |-> p]

TxDomain ==
    { Tx("xp", TRUE, 5, StrPath(<<"g","o">>)),
      Tx("", TRUE, 5, StrPath(<<"x","/","p","i","s","c","i","n","e","-","g","o">>)),
      Tx("xp", TRUE, 3, StrPath(<<"7">>)),
      Tx("xp", TRUE, 3, StrPath(<<"q","u","e","s","t","-","0","1","/","4","2">>)),
      Tx("up", TRUE, 5, StrPath(<<"g","o">>)),
      Tx("xp", FALSE, 0, StrPath(<<"g","o">>)),
      Tx("xp", TRUE, 0, StrPath(<<"j","s">>)),
      Tx("xp", TRUE, 2, StrPath(<<"x","/","_","_","p","r","o","t","o","_","_">>)),
      Tx("xp", TRUE, 4, StrPath(<<"e","x","a","c","t","l","y","-","f","i","f","t","e","e","n">>)),
      Tx("xp", TRUE, 4, StrPath(<<"p","i","s","c","i","n","e","-","j","a","v","a","s","c","r","i","p","t",
                                  "-","a","d","v","a","n","c","e","d">>)),
      Tx("xp", TRUE, 5, NullPath) }

Skill(hasType, type, amount) ==
    [hasType |-> hasType, type |-> type, amount |-> amount]

SkillDomain ==
    { Skill(TRUE, <<"s","k","i","l","l","_","g","o">>, 50),
      Skill(TRUE, <<"s","k","i","l","l","_","g","o">>, 30),
      Skill(TRUE, <<"g","o">>, 60),
      Skill(TRUE, <<"s","k","i","l","l","_","7">>, 50),
      Skill(TRUE, <<"s","k","i","l","l","_","j","s">>, 0),
      Skill(TRUE, <<"s","k","i","l","l","_","j","s">>, -5),
      Skill(TRUE, <<"s","k","i","l","l","_","f","r","o","n","t","-","e","n","d","_","d","e","v">>, 50),
      Skill(FALSE, <<>>, 10) }

ListsUpTo(S, n) == UNION { [1..k -> S] : k \in 0..n }

RECURSIVE DecimalOf(_)
DecimalOf(n) ==
    IF n < 10 THEN <<Digits[n + 1]>> ELSE DecimalOf(n \div 10) \o <<Digits[(n % 10) + 1]>>

\* the i-th of a family of names with pairwise distinct labels; every
\* fourth one consists of digits only
PoolName(i) == IF i % 4 = 0 THEN DecimalOf(i) ELSE <<"p">> \o DecimalOf(i)

\* which records of a list of n carry the higher value: none, one or, for
\* lists that reach the top-N limit, two
BoostSets(n) ==
    { B \in SUBSET (1..n) :
        Cardinality(B) <= (IF n >= TopN THEN 2 ELSE 1) }

LabelledTxLists ==
    UNION { { [i \in 1..n |-> Tx("xp", TRUE, IF i \in B THEN 2 ELSE 1,
                                 StrPath(PoolName(i)))] : B \in BoostSets(n) } :
            n \in 1..MaxLabels }

LabelledSkillLists ==
    UNION { { [i \in 1..n |-> Skill(TRUE, SkillPrefix \o PoolName(i),
                                    IF i \in B THEN 2 ELSE 1)] : B \in BoostSets(n) } :
            n \in 1..MaxLabels }

\* the record lists the data model can hold when a chart is rendered
DataInputs ==
    { [transactions |-> txs, skills |-> <<>>] :
        txs \in ListsUpTo(TxDomain, MaxRecords) \cup LabelledTxLists }
    \cup
    { [transactions |-> <<tx>>, skills |-> <<sk>>] :
        tx \in TxDomain, sk \in SkillDomain }
    \cup
    { [transactions |-> <<>>, skills |-> sks] :
        sks \in ListsUpTo(SkillDomain, MaxRecords) \cup LabelledSkillLists }

\* clientWidth and height attribute of the svg elements; 0 stands for an
\* element that reports no size
Viewports ==
    { [clientWidth |-> 0, heightAttr |-> 0],
      [clientWidth |-> 10, heightAttr |-> 10],
      [clientWidth |-> 100, heightAttr |-> 161],
      [clientWidth |-> 101, heightAttr |-> 161],
      [clientWidth |-> 500, heightAttr |-> 140] }

---------------------------------------------------------------------------
(* Dates. An instant is a number of hours since 2025-01-01T00:00Z; the   *)
(* calendar covers the years 2025 to 2027, which are not leap years.     *)

MonthLengths == <<31, 28, 31, 30, 31, 30, 31, 31, 30, 31, 30, 31>>

\* days of the year before month m (0..11), and before the end of December
DaysBeforeMonth == <<0, 31, 59, 90, 120, 151, 181, 212, 243, 273, 304, 334, 365>>

\* year (0 for 2025), month (0..11) and day of month of every day number
DateFieldsTable ==
    [day \in 0..(3 * 365 - 1) |->
        LET doy == day % 365
            m == CHOOSE k \in 0..11 :
                    DaysBeforeMonth[k + 1] <= doy /\ doy < DaysBeforeMonth[k + 2]
        IN  [year |-> day \div 365, month |-> m, date |-> doy - DaysBeforeMonth[m + 1] + 1]]

DateFields(day) == DateFieldsTable[day]

\* MakeDay: the day number of a year, a month that may be negative and a
\* day of month that may run past the end of the month
MakeDay(year, month, date) ==
    LET y == IF month < 0 THEN year - 1 ELSE year
        m == IF month < 0 THEN month + 12 ELSE month
    IN  365 * y + DaysBeforeMonth[m + 1] + date - 1

\* the zones: standard offset in hours, and the instants between which
\* daylight saving time applies in 2025 and in 2026
Zones ==
    [UTC |-> [std |-> 0, dst |-> <<>>],
     Paris |-> [std |-> 1,
                dst |-> << <<24 * MakeDay(0, 2, 30) + 1, 24 * MakeDay(0, 9, 26) + 1>>,
                           <<24 * MakeDay(1, 2, 29) + 1, 24 * MakeDay(1, 9, 25) + 1>> >>],
     NewYork |-> [std |-> -5,
                  dst |-> << <<24 * MakeDay(0, 2, 9) + 7, 24 * MakeDay(0, 10, 2) + 6>>,
                             <<24 * MakeDay(1, 2, 8) + 7, 24 * MakeDay(1, 10, 1) + 6>> >>]]

\* offset of local time from UTC at an instant
ZoneOffset(zone, t) ==
    LET z == Zones[zone]
    IN  IF \E k \in 1..Len(z.dst) : z.dst[k][1] <= t /\ t < z.dst[k][2]
        THEN z.std + 1
        ELSE z.std

\* local time (in hours) of an instant
LocalTime(zone, t) == t + ZoneOffset(zone, t)

\* the instant of a local time; a local time that the clocks skip or
\* repeat is read with the offset in force before the transition
UTCOf(zone, local) ==
    LET std == Zones[zone].std
    IN  IF ZoneOffset(zone, local - std - 1) = std + 1
        THEN local - std - 1
        ELSE local - std

\* date.toISOString().split('T')[0]: the UTC calendar day as
\* <<year, month, day>>
ISODate(t) ==
    LET f == DateFields(t \div 24)
    IN  <<2025 + f.year, f.month + 1, f.date>>

\* new Date("YYYY-MM-DD"): midnight UTC of that day
ParseISODate(d) == 24 * MakeDay(d[1] - 2025, d[2] - 1, d[3])

\* date.setMonth(date.getMonth() + delta), in local time
SetMonthBy(zone, t, delta) ==
    LET local == LocalTime(zone, t)
        f == DateFields(local \div 24)
    IN  UTCOf(zone, 24 * MakeDay(f.year, f.month + delta, f.date) + (local % 24))

\* date.setDate(date.getDate() + 1), in local time
SetDateNextDay(zone, t) ==
    LET local == LocalTime(zone, t)
        f == DateFields(local \div 24)
    IN  UTCOf(zone, 24 * MakeDay(f.year, f.month, f.date + 1) + (local % 24))

---------------------------------------------------------------------------
(* ApiService.fetchGithubLikeActivity *)

\* a variant in which the last record of a day overwrites the count
CountOverwrite(obj, date) == SetOwn(obj, date, 1)

\* activityByDate[date] = (activityByDate[date] || 0) + 1
CountOne(obj, date) ==
    IF HasOwn(obj, date)
    THEN SetOwn(obj, date, obj[OwnIndex(obj, date)].value + 1)
    ELSE SetOwn(obj, date, 1)

RECURSIVE CountByDateFrom(_, _, _)
CountByDateFrom(created, i, obj) ==
    IF i > Len(created) THEN obj
    ELSE CountByDateFrom(created, i + 1, CountOne(obj, ISODate(created[i])))

\* .sort((a, b) => new Date(a.date) - new Date(b.date)): ascending, stable
SortByDate(s) ==
    LET n == Len(s)
        rank(i) == Cardinality({ j \in 1..n :
                        \/ ParseISODate(s[j].date) < ParseISODate(s[i].date)
                        \/ (ParseISODate(s[j].date) = ParseISODate(s[i].date) /\ j < i) })
    IN  [k \in 1..n |-> s[CHOOSE i \in 1..n : rank(i) = k - 1]]

\* the keys are date strings, never integer keys, so Object.entries keeps
\* the insertion order
FetchGithubLikeActivity(created) ==
    LET byDate == CountByDateFrom(created, 1, EmptyObject)
    IN  SortByDate([k \in 1..Len(byDate) |->
                        [date |-> byDate[k].key, count |-> byDate[k].value]])

---------------------------------------------------------------------------
(* App.displayActivity *)

\* Math.max(...activity.map(a => a.count)), for a list that is not empty
MaxCount(act) ==
    act[CHOOSE i \in 1..Len(act) : \A j \in 1..Len(act) : act[j].count <= act[i].count].count

\* activityMap[a.date] = a.count, in list order
RECURSIVE ActivityMapFrom(_, _, _)
ActivityMapFrom(act, i, obj) ==
    IF i > Len(act) THEN obj
    ELSE ActivityMapFrom(act, i + 1, SetOwn(obj, act[i].date, act[i].count))

\* activityMap[dateStr] || 0
CountFor(map, dateStr) ==
    IF HasOwn(map, dateStr) THEN map[OwnIndex(map, dateStr)].value ELSE 0

\* more iterations than the loop can make over six months
MaxIterations == 200

\* the while loop: one cell per iteration, from currentDate up to today.
\* currentDate grows with every iteration, so the loop runs over the
\* iterates of setDate that do not exceed today; Iterates lists the
\* first n of them. today and sixMonthsAgo are two readings of the clock:
\* late says that the clock advanced between them, and then currentDate is
\* the instant t just after the hour, which exceeds today when t = today.
\* The intensity of a cell is intensityNum / intensityDen
RECURSIVE Iterates(_, _, _)
Iterates(zone, t, n) ==
    IF n = 1 THEN <<t>>
    ELSE LET half == Iterates(zone, t, n \div 2)
         IN  half \o Iterates(zone, SetDateNextDay(zone, half[Len(half)]), n - (n \div 2))

CellsFrom(zone, start, today, late, map, maxCount) ==
    LET dates == SelectSeq(Iterates(zone, start, MaxIterations),
                           LAMBDA d : IF late THEN d < today ELSE d <= today)
    IN  [k \in 1..Len(dates) |->
            [date |-> ISODate(dates[k]),
             count |-> CountFor(map, ISODate(dates[k])),
             intensityNum |-> IF maxCount > 0 THEN CountFor(map, ISODate(dates[k])) ELSE 0,
             intensityDen |-> IF maxCount > 0 THEN maxCount ELSE 1]]

NoActivityMessage == "No activity data available"

\* a variant without the early return, binning over an empty map
DisplayActivityNoEmptyState(act, zone, today, late) ==
    [message |-> "",
     cells |-> CellsFrom(zone, SetMonthBy(zone, today, -6), today, late, EmptyObject, 0)]

\* displayActivity: what the container holds afterwards
DisplayActivityResult(act, zone, today, late) ==
    IF Len(act) = 0
    THEN [message |-> NoActivityMessage, cells |-> <<>>]
    ELSE [message |-> "",
          cells |-> CellsFrom(zone, SetMonthBy(zone, today, -6), today, late,
                              ActivityMapFrom(act, 1, EmptyObject), MaxCount(act))]

---------------------------------------------------------------------------
(* Inputs of the activity view. *)

\* longest list of activity records the query returns
MaxObs == 2

\* how long before the clock reading an activity was created, in hours
ObsAges == {0, 1, 24 * 200}

\* clock readings in 2026: a day of the year and an hour (UTC)
ClockInputs ==
    { 24 * MakeDay(1, md[1], md[2]) + h :
        md \in { <<0, 1>>, <<2, 31>>, <<4, 1>>, <<7, 31>>, <<10, 3>>, <<11, 31>> },
        h \in {0, 23} }

ZoneInputs == {"UTC", "Paris", "NewYork"}

---------------------------------------------------------------------------
(* The label normalizer on its own: one call per behaviour. *)

LabelIdle == /\ path = NullPath /\ label = <<>> /\ labelDone = FALSE

ChartIdle ==
    /\ transactions = <<>> /\ skills = <<>>
    /\ viewport = [clientWidth |-> 0, heightAttr |-> 0]
    /\ xpSurface = BlankSurface
    /\ skillsSurface = BlankSurface
    /\ thrown = "none"

BlankHeatmap == [message |-> "", cells |-> <<>>]

ActivityIdle ==
    /\ progresses = <<>> /\ clock = 0 /\ tz = "UTC"
    /\ activity = <<>>
    /\ heatmap = BlankHeatmap

AxisIdle == /\ axisMax = 0 /\ axisHeight = 0 /\ yAxis = <<>> /\ scaled = <<>>

FriendsIdle ==
    /\ userLogin = <<>> /\ groups = <<>>
    /\ collaborators = <<>> /\ friendsLoaded = FALSE

\* the model data as reset() leaves it
ResetData ==
    [ user |-> "null",
      transactions |-> <<>>,
      skills |-> <<>>,
      progress |-> <<>>,
      audits |-> <<>>,
      auditsDoneCount |-> 0,
      auditsReceivedCount |-> 0,
      totalXpAmount |-> 0,
      piscineStats |-> [piscineGo |-> 0, piscineJs |-> 0, cursus |-> 0],
      piscineDetails |->
          [ piscineGo |-> [total |-> 0, details |-> <<>>],
            piscineJs |-> [total |-> 0, details |-> <<>>],
            cursus |-> [total |-> 0, details |-> <<>>] ],
      collaborators |-> <<>>,
      activity |-> <<>> ]

NullCache == <<>>
NoItem == [kind |-> "null", value |-> <<>>]
UndefinedToken == [kind |-> "undefined", value |-> <<>>]
NullToken == [kind |-> "null", value |-> <<>>]
StringToken(v) == [kind |-> "string", value |-> v]
NoMessage == [text |-> "", words |-> {}]
NoStep ==
    [ handler |-> "none", loader |-> "", outcome |-> "", started |-> <<>>,
      failed |-> {}, result |-> "none", sent |-> 0, error |-> NoMessage ]
IdleButton == [text |-> "Sign In", disabled |-> FALSE]
NoLoginError == [hidden |-> TRUE, text |-> ""]
BlankSide == [progress |-> 0, message |-> "", rows |-> <<>>]
BlankPanel == [piscineGo |-> BlankSide, piscineJs |-> BlankSide]
BlankTable == [message |-> "", rows |-> <<>>]

DebounceIdle ==
    /\ now = 0 /\ timeout = 0 /\ timers = {}
    /\ calls = <<>> /\ runs = <<>>

SessionIdle ==
    /\ storedToken = NoItem /\ apiToken = UndefinedToken
    /\ loginPageHidden = FALSE /\ profilePageHidden = TRUE
    /\ profileView = "markup" /\ mainContentError = ""
    /\ loginButton = IdleButton /\ loginError = NoLoginError
    /\ loginPending = FALSE
    /\ data = ResetData
    /\ lastFetchedDataForResize = NullCache
    /\ loads = <<>>
    /\ chartInput = <<>>
    /\ piscinePanel = BlankPanel
    /\ projectsTable = BlankTable
    /\ step = NoStep

InitLabel ==
    /\ path \in PathInputs
    /\ label = <<>>
    /\ labelDone = FALSE
    /\ ChartIdle
    /\ ActivityIdle
    /\ AxisIdle
    /\ FriendsIdle
    /\ DebounceIdle
    /\ SessionIdle

Normalize ==
    /\ ~labelDone
    /\ label' = GetProjectNameFromPath(path)
    /\ labelDone' = TRUE
    /\ UNCHANGED <<path, chartVars, activityVars, axisVars, friendVars,
                 debounceVars, sessionVars>>

NextLabel == Normalize

SpecLabel == InitLabel /\ [][NextLabel]_vars

---------------------------------------------------------------------------
(* The charts: the data model holds the record lists, and each chart *)
(* component renders them into its svg element.                      *)

Init ==
    /\ \E d \in DataInputs :
        /\ transactions = d.transactions
        /\ skills = d.skills
    /\ viewport \in Viewports
    /\ xpSurface = BlankSurface
    /\ skillsSurface = BlankSurface
    /\ thrown = "none"
    /\ LabelIdle
    /\ ActivityIdle
    /\ AxisIdle
    /\ FriendsIdle
    /\ DebounceIdle
    /\ SessionIdle

\* xpChartComponent.render(transactions)
XpRender ==
    /\ xpSurface' = XpRenderResult(xpSurface, transactions, viewport)
    /\ thrown' = "none"
    /\ UNCHANGED <<transactions, skills, viewport, skillsSurface>>
    /\ UNCHANGED <<labelVars, activityVars, axisVars, friendVars,
                 debounceVars, sessionVars>>

\* skillsChartComponent.render(skills)
SkillsRender ==
    /\ IF Len(skills) > 0 /\ SkillsProcessDataThrows(skills)
       THEN /\ thrown' = "TypeError"
            /\ UNCHANGED skillsSurface
       ELSE /\ thrown' = "none"
            /\ skillsSurface' = SkillsRenderResult(skillsSurface, skills, viewport)
    /\ UNCHANGED <<transactions, skills, viewport, xpSurface>>
    /\ UNCHANGED <<labelVars, activityVars, axisVars, friendVars,
                 debounceVars, sessionVars>>

Next == XpRender \/ SkillsRender

Spec == Init /\ [][Next]_vars

---------------------------------------------------------------------------
(* The activity view: the data model loads the activity counts, and the *)
(* application displays them as a heatmap.                              *)

InitActivity ==
    /\ clock \in ClockInputs
    /\ tz \in ZoneInputs
    /\ \E ages \in ListsUpTo(ObsAges, MaxObs) :
        progresses = [i \in 1..Len(ages) |-> clock - ages[i]]
    /\ activity = <<>>
    /\ heatmap = BlankHeatmap
    /\ LabelIdle
    /\ ChartIdle
    /\ AxisIdle
    /\ FriendsIdle
    /\ DebounceIdle
    /\ SessionIdle

\* loadActivity, the query succeeding
LoadActivity ==
    /\ activity' = FetchGithubLikeActivity(progresses)
    /\ UNCHANGED <<progresses, clock, tz, heatmap>>
    /\ UNCHANGED <<labelVars, chartVars, axisVars, friendVars,
                 debounceVars, sessionVars>>

\* displayActivity
DisplayActivity ==
    /\ \E late \in BOOLEAN :
        heatmap' = DisplayActivityResult(activity, tz, clock, late)
    /\ UNCHANGED <<progresses, clock, tz, activity>>
    /\ UNCHANGED <<labelVars, chartVars, axisVars, friendVars,
                 debounceVars, sessionVars>>

NextActivity == LoadActivity \/ DisplayActivity

SpecActivity == InitActivity /\ [][NextActivity]_vars

---------------------------------------------------------------------------
(* ApiService.fetchBestFriends *)

\* if (login) collaborators[login] = (collaborators[login] || 0) + 1;
\* the empty login stands for a member entry without one
FriendsAccumulate(obj, login) ==
    IF login = <<>> THEN obj
    ELSE IF HasOwn(obj, login)
    THEN SetOwn(obj, login, obj[OwnIndex(obj, login)].value + 1)
    ELSE IF login = ProtoKey
    THEN obj
    ELSE SetOwn(obj, login, 1)

\* members.forEach
RECURSIVE FriendsMembersFrom(_, _, _)
FriendsMembersFrom(members, i, obj) ==
    IF i > Len(members) THEN obj
    ELSE FriendsMembersFrom(members, i + 1, FriendsAccumulate(obj, members[i]))

\* groups.forEach
RECURSIVE FriendsGroupsFrom(_, _, _)
FriendsGroupsFrom(gs, i, obj) ==
    IF i > Len(gs) THEN obj
    ELSE FriendsGroupsFrom(gs, i + 1, FriendsMembersFrom(gs[i], 1, obj))

\* the collaborator objects {login, count} are the records [key, value]
FetchBestFriends(gs) ==
    SortDescending(ObjectEntries(FriendsGroupsFrom(gs, 1, EmptyObject)))

---------------------------------------------------------------------------
(* The collaborators: the data model loads the frequency counts. *)

\* largest number of groups the query returns
MaxGroups == 3

Alice == <<"a","l","i","c","e">>

Bob == <<"b","o","b">>

\* the member lists of a group: with and without the user, with a login
\* of digits, with an entry without a login, and without members
MemberLists ==
    { <<>>,
      <<Alice, Bob>>,
      <<Bob, Alice, <<"4","2">> >>,
      <<Bob, <<>> >>,
      <<Alice, <<"4","2">>, Bob>>,
      <<Bob, ProtoKey>> }

InitFriends ==
    /\ userLogin \in {Alice, Bob}
    /\ groups \in ListsUpTo(MemberLists, MaxGroups)
    /\ collaborators = <<>>
    /\ friendsLoaded = FALSE
    /\ LabelIdle
    /\ ChartIdle
    /\ ActivityIdle
    /\ AxisIdle
    /\ DebounceIdle
    /\ SessionIdle

\* loadCollaborators, the query succeeding
LoadCollaborators ==
    /\ collaborators' = FetchBestFriends(groups)
    /\ friendsLoaded' = TRUE
    /\ UNCHANGED <<userLogin, groups>>
    /\ UNCHANGED <<labelVars, chartVars, activityVars, axisVars,
                 debounceVars, sessionVars>>

NextFriends == LoadCollaborators

SpecFriends == InitFriends /\ [][NextFriends]_vars

---------------------------------------------------------------------------
(* The scale and the Y axis on their own, for any maximum. *)

\* largest maximum a scale is built for
MaxValue == 12

\* heights of the chart area: the smallest one, and those of the default
\* svg heights of the two charts
ChartHeights == {1, XpDefaultHeight - XpMargin.top - XpMargin.bottom,
                 SkillsDefaultHeight - SkillsMargin.top - SkillsMargin.bottom}

InitAxis ==
    /\ axisMax \in 0..MaxValue
    /\ axisHeight \in ChartHeights
    /\ yAxis = <<>>
    /\ scaled = <<>>
    /\ LabelIdle
    /\ ChartIdle
    /\ ActivityIdle
    /\ FriendsIdle
    /\ DebounceIdle
    /\ SessionIdle

\* renderYAxis(maxValue, chartWidth, chartHeight, ...)
RenderYAxis ==
    /\ yAxis' = YAxisTicks(axisMax, axisHeight)
    /\ UNCHANGED <<axisMax, axisHeight, scaled>>
    /\ UNCHANGED <<labelVars, chartVars, activityVars, friendVars,
                 debounceVars, sessionVars>>

\* scaleY(val), for a value of the domain [0, maxValue]
ApplyScaleY ==
    /\ \E val \in 0..axisMax :
        scaled' = <<ScaleY(val, axisMax, axisHeight)>>
    /\ UNCHANGED <<axisMax, axisHeight, yAxis>>
    /\ UNCHANGED <<labelVars, chartVars, activityVars, friendVars,
                 debounceVars, sessionVars>>

NextAxis == RenderYAxis \/ ApplyScaleY

SpecAxis == InitAxis /\ [][NextAxis]_vars

---------------------------------------------------------------------------
(* Claims about the label normalizer, checked under SpecLabel. *)

\* C2: getProjectNameFromPath is total: for every string or null path it
\* returns, and what it returns is a non-empty string.
C2_LabelNeverEmpty == labelDone => Len(label) > 0

ExamplePath ==
    StrPath(<<"p","i","s","c","i","n","e","-","g","o","/",
              "q","u","e","s","t","-","0","1","/","4","2">>)

\* C3 as stated: the label of "piscine-go/quest-01/42" is "Go".
C3_ExampleIsGo ==
    (labelDone /\ path = ExamplePath) => label = <<"G","o">>

\* C3: the label of "piscine-go/quest-01/42" is "01": the numeric trailing
\* segment is skipped, the name is taken from the segment before it,
\* "quest-01", and its "quest-" prefix is stripped.
C3_ExampleIs01 ==
    (labelDone /\ path = ExamplePath) => label = <<"0","1">>

C3_ExampleNormalized == labelDone /\ path = ExamplePath

\* a segment that names something: not empty and not purely numeric
IsNamed(seg) == seg # <<>> /\ ~IsNumeric(seg)

LastNamedSegment(parts) ==
    parts[CHOOSE i \in 1..Len(parts) :
            /\ IsNamed(parts[i])
            /\ \A j \in (i + 1)..Len(parts) : ~IsNamed(parts[j])]

\* C4: for every path with at least one non-empty, non-numeric segment the
\* label is derived from the last such segment, however many empty or
\* numeric segments follow it.
C4_LabelFromLastNamedSegment ==
    LET parts == Split(path.str, "/")
    IN  (labelDone /\ ~path.isNull /\ \E i \in 1..Len(parts) : IsNamed(parts[i]))
            => label = FormatName(StripPrefixes(LastNamedSegment(parts)))

---------------------------------------------------------------------------
(* Claims about the charts, checked under Spec. *)

RECURSIVE SumValues(_)
SumValues(series) ==
    IF Len(series) = 0 THEN 0 ELSE series[1].value + SumValues(Tail(series))

RECURSIVE SumOfFiltered(_)
SumOfFiltered(txs) ==
    IF Len(txs) = 0 THEN 0
    ELSE (IF XpFilter(txs[1]) THEN txs[1].amount ELSE 0) + SumOfFiltered(Tail(txs))

XpRendered == xpSurface # BlankSurface

SkillsRendered == skillsSurface # BlankSurface

\* C1: the values of the series processData returns for the transactions
\* add up to the sum of the amounts of the records that pass the filter.
C1_SeriesSumIsFilteredSum ==
    XpRendered =>
        SumValues(ObjectEntries(XpProcessData(transactions))) = SumOfFiltered(transactions)

TooSmallMessage == "Chart cannot be rendered (too small)."

OnlyMessage(surface, message) ==
    /\ surface.message = message
    /\ surface.labels = <<>> /\ surface.ticks = <<>> /\ surface.bars = <<>>
    /\ surface.title = "" /\ surface.gradient = ""

XpSeries == ObjectEntries(XpProcessData(transactions))

SkillsSeries == ObjectEntries(SkillsProcessFrom(skills, 1, EmptyObject))

\* the viewport less the margins leaves no room, in width or in height
ViewportUndersized(margin) ==
    \/ viewport.clientWidth - margin.left - margin.right <= 0
    \/ viewport.heightAttr - margin.top - margin.bottom <= 0

\* the chart area calculateDimensions computed leaves no room
AreaUndersized(dims) == dims.chartWidth <= 0 \/ dims.chartHeight <= 0

\* C5 as stated: whenever the viewport less the margins is undersized, a
\* render leaves the too-small message and nothing else, on both charts.
C5_UndersizedAlwaysReported ==
    /\ (XpRendered /\ ViewportUndersized(XpMargin))
            => OnlyMessage(xpSurface, TooSmallMessage)
    /\ (SkillsRendered /\ ViewportUndersized(SkillsMargin))
            => OnlyMessage(skillsSurface, TooSmallMessage)

\* C5: whenever the series is not empty and the chart area that
\* calculateDimensions computes (from the width and height of the element,
\* or from the defaults where the element reports none) is undersized, a
\* render leaves the too-small message and nothing else (no bar, tick,
\* grid line or label), on both charts.
C5_UndersizedReportedForData ==
    /\ (XpRendered /\ AreaUndersized(XpCalculateDimensions(viewport))
            /\ Len(XpSeries) > 0)
            => OnlyMessage(xpSurface, TooSmallMessage)
    /\ (SkillsRendered /\ AreaUndersized(SkillsCalculateDimensions(viewport))
            /\ Len(SkillsSeries) > 0)
            => OnlyMessage(skillsSurface, TooSmallMessage)

C5_BothTooSmall ==
    /\ AreaUndersized(XpCalculateDimensions(viewport))
    /\ AreaUndersized(SkillsCalculateDimensions(viewport))
    /\ Len(XpSeries) > 0 /\ Len(SkillsSeries) > 0
    /\ xpSurface.message = TooSmallMessage
    /\ skillsSurface.message = TooSmallMessage

Min(a, b) == IF a < b THEN a ELSE b

\* the bars are the min(n, TopN) highest entries of the series, from left
\* to right by non-increasing value
IsTopOf(bars, series) ==
    /\ Len(bars) = Min(Len(series), TopN)
    /\ \A k \in 1..(Len(bars) - 1) : bars[k].value >= bars[k + 1].value
    /\ \A k \in 1..Len(bars) :
        \E e \in 1..Len(series) :
            series[e].key = bars[k].label /\ series[e].value = bars[k].value
    /\ \A e \in 1..Len(series) :
        (\A k \in 1..Len(bars) : bars[k].label # series[e].key)
            => \A k \in 1..Len(bars) : series[e].value <= bars[k].value

SkillsSeriesRebuilt ==
    [e \in 1..Len(SkillsSeries) |->
        [key |-> SkillPrefix \o SkillsSeries[e].key, value |-> SkillsSeries[e].value]]

\* C6: a chart that is laid out for a series of n entries has exactly
\* min(n, 10) bars, ordered left to right by non-increasing value, and no
\* entry left out has a value above that of an entry kept.
C6_TopNBarsDescending ==
    /\ xpSurface.title # "" => IsTopOf(xpSurface.bars, XpSeries)
    /\ skillsSurface.title # "" => IsTopOf(skillsSurface.bars, SkillsSeriesRebuilt)

C6_TruncatedChart ==
    /\ xpSurface.title # ""
    /\ Len(XpSeries) > TopN
    /\ Len(xpSurface.bars) = TopN
    /\ xpSurface.bars[1].value > xpSurface.bars[TopN].value

\* position of the first record that contributes to a label
FirstTx(lbl) ==
    CHOOSE i \in 1..Len(transactions) :
        /\ XpFilter(transactions[i])
        /\ GetProjectNameFromPath(transactions[i].path) = lbl
        /\ \A j \in 1..(i - 1) :
            ~(XpFilter(transactions[j])
              /\ GetProjectNameFromPath(transactions[j].path) = lbl)

FirstSkill(type) ==
    CHOOSE i \in 1..Len(skills) :
        /\ SkillPrefix \o ReplacePrefix(skills[i].type, SkillPrefix) = type
        /\ \A j \in 1..(i - 1) :
            SkillPrefix \o ReplacePrefix(skills[j].type, SkillPrefix) # type

\* C7: entries of equal value are laid out, and survive truncation, in the
\* order in which their labels were first met in the input records.
C7_TiesInEncounterOrder ==
    /\ xpSurface.title # "" =>
        /\ \A k \in 1..(Len(xpSurface.bars) - 1) :
            xpSurface.bars[k].value = xpSurface.bars[k + 1].value
                => FirstTx(xpSurface.bars[k].label) < FirstTx(xpSurface.bars[k + 1].label)
        /\ \A e \in 1..Len(XpSeries) :
            \A k \in 1..Len(xpSurface.bars) :
                ( /\ \A m \in 1..Len(xpSurface.bars) :
                        xpSurface.bars[m].label # XpSeries[e].key
                  /\ XpSeries[e].value = xpSurface.bars[k].value )
                    => FirstTx(xpSurface.bars[k].label) < FirstTx(XpSeries[e].key)
    /\ skillsSurface.title # "" =>
        /\ \A k \in 1..(Len(skillsSurface.bars) - 1) :
            skillsSurface.bars[k].value = skillsSurface.bars[k + 1].value
                => FirstSkill(skillsSurface.bars[k].label)
                       < FirstSkill(skillsSurface.bars[k + 1].label)
        /\ \A e \in 1..Len(SkillsSeriesRebuilt) :
            \A k \in 1..Len(skillsSurface.bars) :
                ( /\ \A m \in 1..Len(skillsSurface.bars) :
                        skillsSurface.bars[m].label # SkillsSeriesRebuilt[e].key
                  /\ SkillsSeriesRebuilt[e].value = skillsSurface.bars[k].value )
                    => FirstSkill(skillsSurface.bars[k].label)
                           < FirstSkill(SkillsSeriesRebuilt[e].key)

---------------------------------------------------------------------------
(* Claims about the activity view, checked under SpecActivity. *)

Displayed == heatmap # BlankHeatmap

C9_CellsAreConsecutiveDays ==
    heatmap.cells # <<>> =>
        /\ heatmap.cells[Len(heatmap.cells)].date = ISODate(clock)
        /\ \A k \in 1..(Len(heatmap.cells) - 1) :
            ParseISODate(heatmap.cells[k + 1].date)
                = ParseISODate(heatmap.cells[k].date) + 24

\* number of raw activity timestamps that fall on a UTC calendar day
RawCount(date) ==
    Cardinality({ i \in 1..Len(progresses) : ISODate(progresses[i]) = date })

---------------------------------------------------------------------------
(* Further claims about the charts, checked under Spec. The records and *)
(* the viewport never change in a behaviour of Spec, so every render    *)
(* after the first is a render with identical records and viewport.     *)

\* C11: a render of a chart that was rendered before, with the same
\* records and the same viewport, leaves the surface as the earlier render
\* left it: nothing is kept or accumulated, whatever the outcome.
C11_SecondRenderSame ==
    [][ /\ XpRendered => xpSurface' = xpSurface
        /\ SkillsRendered => skillsSurface' = skillsSurface ]_vars

\* both charts laid out in full: the state a second render starts from
\* and, as it changes nothing, ends in
C11_FullChartsRendered ==
    /\ xpSurface.title # "" /\ Len(xpSurface.bars) > 0
    /\ skillsSurface.title # "" /\ Len(skillsSurface.bars) > 0

AllZero(series) ==
    Len(series) > 0 /\ \A e \in 1..Len(series) : series[e].value = 0

XpAllZeroMessage == "All projects have 0 XP"

SkillsAllZeroMessage == "All skills have 0% progress."

\* C15 as stated: whenever the series of a chart is not empty and all its
\* values are 0, a render leaves the all-zero message, which is not the
\* too-small message, and nothing else.
C15_AllZeroAlwaysReported ==
    /\ (XpRendered /\ AllZero(XpSeries))
            => OnlyMessage(xpSurface, XpAllZeroMessage)
    /\ (SkillsRendered /\ AllZero(SkillsSeries))
            => OnlyMessage(skillsSurface, SkillsAllZeroMessage)
    /\ XpAllZeroMessage # TooSmallMessage
    /\ SkillsAllZeroMessage # TooSmallMessage

\* C15: whenever the series of a chart is not empty, all its values are 0
\* and the chart area is not undersized, a render leaves the all-zero
\* message, which is not the too-small message, and no bar or axis. (On
\* an undersized area the too-small message is left instead.)
C15_AllZeroReportedWhenRoom ==
    /\ (XpRendered /\ AllZero(XpSeries)
            /\ ~AreaUndersized(XpCalculateDimensions(viewport)))
            => OnlyMessage(xpSurface, XpAllZeroMessage)
    /\ (SkillsRendered /\ AllZero(SkillsSeries)
            /\ ~AreaUndersized(SkillsCalculateDimensions(viewport)))
            => OnlyMessage(skillsSurface, SkillsAllZeroMessage)
    /\ (SkillsRendered /\ AllZero(SkillsSeries)
            /\ AreaUndersized(SkillsCalculateDimensions(viewport)))
            => OnlyMessage(skillsSurface, TooSmallMessage)
    /\ XpAllZeroMessage # TooSmallMessage
    /\ SkillsAllZeroMessage # TooSmallMessage

C15_AllZeroSkillsRendered ==
    /\ AllZero(SkillsSeries)
    /\ ~AreaUndersized(SkillsCalculateDimensions(viewport))
    /\ skillsSurface.message = SkillsAllZeroMessage

\* the type of a skill record without its leading "skill_"
PlainType(sk) == ReplacePrefix(sk.type, SkillPrefix)

\* the highest amount among the records of a type
MaxAmountOf(type) ==
    LET amounts == { skills[i].amount : i \in { j \in 1..Len(skills) :
                                                  PlainType(skills[j]) = type } }
    IN  CHOOSE a \in amounts : \A b \in amounts : b <= a

\* C16: for every skill type of the input, compared without the leading
\* "skill_", processData returns exactly one entry, and its amount is the
\* highest amount among the records of that type.
C16_OneEntryWithMaxAmount ==
    SkillsRendered =>
        LET agg == SkillsProcessData(skills)
        IN  \A i \in 1..Len(skills) :
                Cardinality({ k \in 1..Len(agg) :
                                agg[k].key = SkillPrefix \o PlainType(skills[i]) }) = 1
                /\ \A k \in 1..Len(agg) :
                    agg[k].key = SkillPrefix \o PlainType(skills[i])
                        => agg[k].value = MaxAmountOf(PlainType(skills[i]))

\* C17: a series that reaches bar layout has at least one entry and no
\* negative value, on both charts. (Amounts are integers in this model, so
\* none is NaN.)
C17_LaidOutValuesNotNegative ==
    /\ xpSurface.title # "" =>
        /\ Len(xpSurface.bars) >= 1
        /\ \A k \in 1..Len(xpSurface.bars) : xpSurface.bars[k].value >= 0
    /\ skillsSurface.title # "" =>
        /\ Len(skillsSurface.bars) >= 1
        /\ \A k \in 1..Len(skillsSurface.bars) : skillsSurface.bars[k].value >= 0

\* the validity predicate of a transaction, and of a skill record
ValidTx(tx) == (tx.type = "" \/ tx.type = "xp") /\ tx.isNum /\ tx.amount > 0

ValidSkill(sk) == sk.hasType

RECURSIVE SumOfValidFor(_, _)
SumOfValidFor(txs, lbl) ==
    IF Len(txs) = 0 THEN 0
    ELSE (IF ValidTx(txs[1]) /\ GetProjectNameFromPath(txs[1].path) = lbl
          THEN txs[1].amount ELSE 0) + SumOfValidFor(Tail(txs), lbl)

\* C18: a record that fails the validity predicate is left out silently:
\* no render raises a fault, every series entry of the XP chart is made
\* of valid records only, and every series entry of the skills chart is
\* the type of a record that has one.
C18_InvalidLeftOutSilently ==
    /\ thrown = "none"
    /\ XpRendered =>
        \A e \in 1..Len(XpSeries) :
            XpSeries[e].value = SumOfValidFor(transactions, XpSeries[e].key)
    /\ SkillsRendered =>
        \A e \in 1..Len(SkillsSeries) :
            \E i \in 1..Len(skills) :
                ValidSkill(skills[i]) /\ PlainType(skills[i]) = SkillsSeries[e].key

\* the messages of the empty state
XpEmptyMessage == "No project XP data available"

SkillsEmptyMessages == {"No skills data available.", "No skill data to display."}

\* C19: a record list that is empty, or whose records are all left out,
\* gives an empty series and an empty-state message and no failure,
\* whatever the viewport.
C19_NothingValidShowsEmptyState ==
    /\ (\A i \in 1..Len(transactions) : ~ValidTx(transactions[i])) =>
        /\ XpSeries = <<>>
        /\ XpRendered => OnlyMessage(xpSurface, XpEmptyMessage)
    /\ (\A i \in 1..Len(skills) : ~ValidSkill(skills[i])) =>
        /\ thrown = "none"
        /\ SkillsRendered =>
            \E msg \in SkillsEmptyMessages : OnlyMessage(skillsSurface, msg)

---------------------------------------------------------------------------
(* Claims about the scale and the Y axis, checked under SpecAxis. A     *)
(* position is chartHeight - num / den, so it is the baseline           *)
(* chartHeight exactly when num = 0 and den is not 0.                   *)

\* C12: when the maximum is 0 the mapping divides by 1, never by 0, and
\* the position of value 0 is the baseline, for scaleY and for the ticks
\* of the Y axis.
C12_ZeroMaxDividesByOne ==
    axisMax = 0 =>
        /\ \A k \in 1..Len(scaled) :
            /\ scaled[k].den = 1
            /\ scaled[k].value = 0 => scaled[k].num = 0
        /\ \A k \in 1..Len(yAxis) :
            /\ yAxis[k].den = 1
            /\ yAxis[k].value = 0 => yAxis[k].yNum = 0

C12_ZeroMaxScaled == axisMax = 0 /\ yAxis # <<>> /\ scaled # <<>>

\* C20: for any positive integer maximum the Y axis has 6 ticks, their
\* values are round(maxValue * i / 5) for i = 0..5, the first 0 and the
\* last maxValue, and their positions are evenly spaced: tick i lies
\* i / 5 of the chart height above the baseline.
C20_TicksEvenlySpaced ==
    (axisMax > 0 /\ yAxis # <<>>) =>
        /\ Len(yAxis) = 6
        /\ \A k \in 1..Len(yAxis) :
            /\ 10 * yAxis[k].value <= 2 * axisMax * (k - 1) + 5
            /\ 10 * yAxis[k].value > 2 * axisMax * (k - 1) - 5
            /\ 5 * yAxis[k].yNum = (k - 1) * axisHeight * yAxis[k].den
        /\ yAxis[1].value = 0
        /\ yAxis[6].value = axisMax

---------------------------------------------------------------------------
(* Claims about the collaborators, checked under SpecFriends. *)

\* C13: the current user is never among the collaborators returned.
C13_SelfNotACollaborator ==
    friendsLoaded =>
        \A k \in 1..Len(collaborators) : collaborators[k].key # userLogin

\* number of member entries with a login, over all groups
Memberships(login) ==
    Cardinality({ gm \in UNION { { <<g, m>> : m \in 1..Len(groups[g]) } :
                                    g \in 1..Len(groups) } :
                    groups[gm[1]][gm[2]] = login })

\* C14: for every login of a member entry there is exactly one
\* collaborator, whose count is the number of member entries with that
\* login over all groups; entries without a login give none; and the
\* collaborators are in order of non-increasing count.
C14_CountIsMemberships ==
    friendsLoaded =>
        /\ \A g \in 1..Len(groups) : \A m \in 1..Len(groups[g]) :
            groups[g][m] # <<>> =>
                Cardinality({ k \in 1..Len(collaborators) :
                                /\ collaborators[k].key = groups[g][m]
                                /\ collaborators[k].value = Memberships(groups[g][m]) }) = 1
        /\ \A k \in 1..Len(collaborators) :
            /\ collaborators[k].key # <<>>
            /\ Memberships(collaborators[k].key) > 0
            /\ \A j \in 1..Len(collaborators) :
                collaborators[j].key = collaborators[k].key => j = k
        /\ \A k \in 1..(Len(collaborators) - 1) :
            collaborators[k].value >= collaborators[k + 1].value

---------------------------------------------------------------------------
(* Claims about the geometry of the charts, checked under Spec. Abscissae *)
(* are in units of 1 / den of the chart width, den = 20 * n for n bars.   *)

\* the bars and the labels are laid out on slots of equal width: bar k has
\* its left edge 0.15 of a slot after the start of slot k, is 0.7 of a slot
\* wide, ends 0.15 of a slot before the end of the slot, and the label
\* anchor is at its centre; origin is the abscissa of the left margin
OnSlots(bars, labels, width, origin) ==
    LET n == Len(bars)
    IN  /\ Len(labels) = n
        /\ \A k \in 1..n :
            LET left == bars[k].xNum - origin * bars[k].den
                slotStart == 20 * (k - 1) * width
                slotEnd == 20 * k * width
            IN  /\ bars[k].den = 20 * n
                /\ labels[k].den = 20 * n
                /\ 20 * bars[k].wNum = 14 * 20 * width
                /\ 20 * (left - slotStart) = 3 * 20 * width
                /\ slotEnd - (left + bars[k].wNum) = left - slotStart
                /\ 2 * (labels[k].xNum - origin * labels[k].den)
                       = 2 * left + bars[k].wNum
                /\ left >= 0
                /\ left + bars[k].wNum <= 20 * n * width
                /\ k < n => left + bars[k].wNum
                               <= bars[k + 1].xNum - origin * bars[k + 1].den

\* C21: for n bars in a chart area of width W, bar i lies in the slot
\* [i*W/n, (i+1)*W/n] from the left margin, is 0.7*W/n wide and centred in
\* its slot, so bars neither overlap nor leave the chart area, and the
\* label anchor is at the centre of the bar.
C21_BarsCentredInSlots ==
    /\ xpSurface.title # "" =>
        OnSlots(xpSurface.bars, xpSurface.labels,
                XpCalculateDimensions(viewport).chartWidth, XpMargin.left)
    /\ skillsSurface.title # "" =>
        OnSlots(skillsSurface.bars, skillsSurface.labels,
                SkillsCalculateDimensions(viewport).chartWidth, 0)

C21_SeveralBars ==
    /\ xpSurface.title # "" /\ Len(xpSurface.bars) >= 3
    /\ viewport.clientWidth = 101

\* the highest value among the bars
TopValue(bars) ==
    CHOOSE v \in { bars[k].value : k \in 1..Len(bars) } :
        \A k \in 1..Len(bars) : bars[k].value <= v

\* width and height of every bar are not negative, the height is
\* value * height / maximum clamped to 0 and at most the chart height, the
\* bar of the maximum is as high as the chart, and the bottom edge,
\* y + height, is the baseline: yNum / hDen = hNum / hDen
WellFormedBars(bars, height) ==
    /\ \A k \in 1..Len(bars) :
        /\ bars[k].wNum >= 0 /\ bars[k].den > 0
        /\ bars[k].hDen = TopValue(bars)
        /\ bars[k].hNum = (IF bars[k].value * height < 0 THEN 0
                           ELSE bars[k].value * height)
        /\ bars[k].hNum >= 0
        /\ bars[k].hNum <= height * bars[k].hDen
        /\ bars[k].value = TopValue(bars) => bars[k].hNum = height * bars[k].hDen
        /\ bars[k].yNum = bars[k].hNum

FormattedSkillName(type) ==
    LET plain == ReplaceAll(ReplaceAll(ReplacePrefix(type, SkillPrefix), "_"), "-")
        words == Split(plain, " ")
    IN  Join([i \in 1..Len(words) |-> Capitalize(words[i])], " ")

\* text is full cut to the budget: full itself within the budget, and
\* past it the first budget - 3 characters and "..."
CutTo(text, full, budget) ==
    /\ Len(text) <= budget
    /\ Len(full) <= budget => text = full
    /\ Len(full) > budget => text = SubSeq(full, 1, budget - 3) \o <<".", ".", ".">>

\* C23: an axis label never exceeds its budget: 15 characters on the XP
\* chart (the first 12 and "..." past it), 12 on the skills chart (the
\* first 9 and "..."), and a label within the budget is shown unchanged.
C23_LabelsWithinBudget ==
    /\ xpSurface.title # "" =>
        \A k \in 1..Len(xpSurface.labels) :
            CutTo(xpSurface.labels[k].text, xpSurface.bars[k].label, 15)
    /\ skillsSurface.title # "" =>
        \A k \in 1..Len(skillsSurface.labels) :
            CutTo(skillsSurface.labels[k].text,
                  FormattedSkillName(skillsSurface.bars[k].label), 12)

C23_LongAndShortLabels ==
    /\ xpSurface.title # ""
    /\ \E k \in 1..Len(xpSurface.labels) :
        Len(xpSurface.bars[k].label) > 15 /\ Len(xpSurface.labels[k].text) = 15
    /\ \E k \in 1..Len(xpSurface.labels) :
        Len(xpSurface.bars[k].label) = 15
            /\ xpSurface.labels[k].text = xpSurface.bars[k].label

C23_LongSkillLabel ==
    /\ skillsSurface.title # ""
    /\ \E k \in 1..Len(skillsSurface.labels) :
        Len(FormattedSkillName(skillsSurface.bars[k].label)) > 12

---------------------------------------------------------------------------
(* debounce(func, wait): every call of the debounced function cancels the  *)
(* timer the closure holds and schedules a new one; a timer that runs      *)
(* cancels the held timer and calls func with the arguments of its call.   *)
(* setTimeout runs a callback wait ticks after the call or later, never    *)
(* earlier; the event loop decides between a due timer and a new event.    *)

Wait == 2
MaxTime == 6
MaxCalls == 3
ResizeEvents == {"e1", "e2"}

\* clearTimeout that cancels nothing
ClearTimeoutNothing(scheduled, id) == scheduled

\* clearTimeout(id): the timer of that id, if scheduled, will not run
ClearTimeout(scheduled, id) == { t \in scheduled : t.id # id }

\* one call of the function debounce returned
ExecutedFunction ==
    /\ Len(calls) < MaxCalls
    /\ now + Wait <= MaxTime
    /\ \E e \in ResizeEvents :
        LET id == Len(calls) + 1
        IN  /\ timers' = ClearTimeout(timers, timeout)
                            \cup {[id |-> id, args |-> e, due |-> now + Wait]}
            /\ timeout' = id
            /\ calls' = Append(calls, [args |-> e, at |-> now])
    /\ UNCHANGED <<now, runs>>
    /\ UNCHANGED <<labelVars, chartVars, activityVars, axisVars, friendVars,
                   sessionVars>>

\* the callback of a timer that is due
Later ==
    /\ \E t \in timers :
        /\ now >= t.due
        /\ timers' = ClearTimeout(timers \ {t}, timeout)
        /\ runs' = Append(runs, [args |-> t.args, at |-> now,
                                 after |-> Len(calls), id |-> t.id])
    /\ UNCHANGED <<now, timeout, calls>>
    /\ UNCHANGED <<labelVars, chartVars, activityVars, axisVars, friendVars,
                   sessionVars>>

\* time passes
Tick ==
    /\ now < MaxTime
    /\ now' = now + 1
    /\ UNCHANGED <<timeout, timers, calls, runs>>
    /\ UNCHANGED <<labelVars, chartVars, activityVars, axisVars, friendVars,
                   sessionVars>>

InitDebounce ==
    /\ DebounceIdle
    /\ LabelIdle
    /\ ChartIdle
    /\ ActivityIdle
    /\ AxisIdle
    /\ FriendsIdle
    /\ SessionIdle

NextDebounce == ExecutedFunction \/ Later \/ Tick

\* the event loop runs a due timer callback and time does not stop
SpecDebounce ==
    InitDebounce /\ [][NextDebounce]_vars /\ WF_vars(Later) /\ WF_vars(Tick)

\* every run happened Wait or more after the latest call before it, with
\* the arguments of that call and from the timer of that call, and no two
\* runs belong to the same call
RunsFollowLastCall ==
    /\ \A i \in 1..Len(runs) :
        /\ runs[i].after \in 1..Len(calls)
        /\ runs[i].id = runs[i].after
        /\ runs[i].args = calls[runs[i].after].args
        /\ runs[i].at >= calls[runs[i].after].at + Wait
    /\ \A i, j \in 1..Len(runs) : runs[i].after = runs[j].after => i = j

---------------------------------------------------------------------------
(* The session: the application class with its login, logout, profile      *)
(* loading and resize handlers, the data model and the API service. A      *)
(* handler runs from one await to the next without interruption; the       *)
(* actions are these runs. The lists the server answers with are fixed;    *)
(* what varies is which requests fail and how the handlers interleave.     *)

MaxLoads == 1

LoaderOrder ==
    << "userInfo", "transactions", "progress", "audits",
       "piscineStats", "piscineDetails", "collaborators", "activity" >>

LoaderIndex(name) == CHOOSE i \in 1..Len(LoaderOrder) : LoaderOrder[i] = name

\* no loader catches its error
NoOptionalLoaders == {}

\* the loaders that catch the error of their query and only log it
OptionalLoaders == {"piscineStats", "piscineDetails", "collaborators", "activity"}

\* the body the sign-in endpoint answers with: the token in quotes
TokenBodies == { <<"\"", "j", "w", "t", "\"">> }

\* token.replace(/"/g, '')
StripQuotes(body) == SelectSeq(body, LAMBDA c : c # "\"")

Tokens == { StringToken(StripQuotes(b)) : b \in TokenBodies }

\* a token is always taken as present
AlwaysHasToken(token) == TRUE

\* !this.token is false
HasToken(token) == token.kind = "string" /\ token.value # <<>>

\* what a request of makeGraphQLQuery can come back with: a result or a
\* status 401, 403 or 500
Outcomes == {"ok", "401", "403", "500"}

TokenNotFound ==
    [text |-> "Authentication token not found. Please login.", words |-> {}]

NullUserError == [text |-> "TypeError", words |-> {}]

\* the message of the error makeGraphQLQuery throws, with the words of it
\* that loadProfileData looks for
ErrorMessage(outcome) ==
    CASE outcome \in {"401", "403"} ->
            [ text |-> "Unauthorized or Forbidden: ... Your session might have expired.",
              words |-> {"Unauthorized", "Forbidden"} ]
      [] OTHER -> [text |-> "HTTP error! status: 500", words |-> {}]

\* no message is taken as an authorization error
NeverAuthError(message) == FALSE

\* message.includes('401') || includes('Unauthorized') || includes('Forbidden')
IsAuthError(message) ==
    message.words \cap {"401", "Unauthorized", "Forbidden"} # {}

ProjectTx(type, numeric, createdAt) ==
    [type |-> type, numeric |-> numeric, createdAt |-> createdAt]

Detail(createdAt) == [createdAt |-> createdAt]

ServedDetails ==
    [ piscineGo |-> [total |-> 1500000, details |-> <<Detail(1), Detail(2)>>],
      piscineJs |-> [total |-> 14999, details |-> <<Detail(3)>>],
      cursus |-> [total |-> 1, details |-> <<>>] ]

\* the assignments of a loader whose query returned
Assign(d, loader) ==
    CASE loader = "userInfo" -> [d EXCEPT !.user = "user"]
      [] loader = "transactions" ->
            [d EXCEPT !.transactions = <<ProjectTx("", TRUE, 1), ProjectTx("", TRUE, 2)>>,
                      !.skills = <<"skill">>,
                      !.auditsDoneCount = 1,
                      !.auditsReceivedCount = 1,
                      !.totalXpAmount = 5]
      [] loader = "progress" -> [d EXCEPT !.progress = <<"progress">>]
      [] loader = "audits" -> [d EXCEPT !.audits = <<"audit">>]
      [] loader = "piscineStats" ->
            [d EXCEPT !.piscineStats = [piscineGo |-> 1, piscineJs |-> 1, cursus |-> 1]]
      [] loader = "piscineDetails" -> [d EXCEPT !.piscineDetails = ServedDetails]
      [] loader = "collaborators" -> [d EXCEPT !.collaborators = <<"friend">>]
      [] OTHER -> [d EXCEPT !.activity = <<"day">>]

\* loadAllData from loader i on, until a request is sent or it settles:
\* without a token every query throws before it sends anything
RECURSIVE RunLoaders(_, _, _, _)
RunLoaders(i, token, started, failed) ==
    IF i > Len(LoaderOrder)
    THEN [ awaiting |-> "idle", result |-> "resolved", started |-> started,
           failed |-> failed, sent |-> 0, error |-> NoMessage ]
    ELSE IF HasToken(token)
    THEN [ awaiting |-> LoaderOrder[i], result |-> "pending",
           started |-> Append(started, LoaderOrder[i]),
           failed |-> failed, sent |-> 1, error |-> NoMessage ]
    ELSE IF LoaderOrder[i] \in OptionalLoaders
    THEN RunLoaders(i + 1, token, Append(started, LoaderOrder[i]),
                    failed \cup {LoaderOrder[i]})
    ELSE [ awaiting |-> "idle", result |-> "rejected",
           started |-> Append(started, LoaderOrder[i]),
           failed |-> failed \cup {LoaderOrder[i]}, sent |-> 0,
           error |-> TokenNotFound ]

\* loadAllData from the answer to the query of a loader on
AfterResponse(loader, outcome, token) ==
    LET i == LoaderIndex(loader)
    IN  IF outcome = "ok" THEN RunLoaders(i + 1, token, <<>>, {})
        ELSE IF loader \in OptionalLoaders
        THEN RunLoaders(i + 1, token, <<>>, {loader})
        ELSE [ awaiting |-> "idle", result |-> "rejected", started |-> <<>>,
               failed |-> {loader}, sent |-> 0,
               error |-> ErrorMessage(outcome) ]

\* sort((a, b) => new Date(b.createdAt) - new Date(a.createdAt)): stable
SortByDateDescending(list) ==
    LET n == Len(list)
        rank(i) == Cardinality({ j \in 1..n :
                        \/ list[j].createdAt > list[i].createdAt
                        \/ (list[j].createdAt = list[i].createdAt /\ j < i) })
    IN  [k \in 1..n |-> list[CHOOSE i \in 1..n : rank(i) = k - 1]]

\* Math.min(100, Math.round((total / 1000000) * 100))
PiscineProgress(total) ==
    LET rounded == (2 * 100 * total + 1000000) \div 2000000
    IN  IF rounded > 100 THEN 100 ELSE rounded

PiscineSide(side, message) ==
    LET recent == Slice(SortByDateDescending(side.details), 3)
    IN  [ progress |-> PiscineProgress(side.total),
          message |-> IF recent = <<>> THEN message ELSE "",
          rows |-> recent ]

\* displayPiscineDetails: the lists of the model are sorted where they are
DisplayPiscineDetails(d) ==
    [ data |->
        [d EXCEPT !.piscineDetails.piscineGo.details = SortByDateDescending(@),
                  !.piscineDetails.piscineJs.details = SortByDateDescending(@)],
      panel |->
        [ piscineGo |-> PiscineSide(d.piscineDetails.piscineGo,
                                    "No piscine Go data available"),
          piscineJs |-> PiscineSide(d.piscineDetails.piscineJs,
                                    "No piscine JS data available") ] ]

\* populateProjectsTable: filter returns a new list, which is sorted
PopulateProjectsTable(d) ==
    LET kept == SelectSeq(d.transactions,
                    LAMBDA t : (t.type = "" \/ t.type = "xp") /\ t.numeric)
        recent == Slice(SortByDateDescending(kept), 10)
    IN  [ message |-> IF recent = <<>> THEN "No XP transactions found." ELSE "",
          rows |-> recent ]

\* generateCharts: the lists handed to the render of the two charts
GenerateCharts(isResize, cache, d) ==
    LET dataToUse == IF isResize /\ cache # NullCache THEN cache[1] ELSE d
    IN  <<[transactions |-> dataToUse.transactions, skills |-> dataToUse.skills]>>

\* the button while a login attempt is awaited
ButtonDuringAttempt == [text |-> "Signing in...", disabled |-> TRUE]

\* the button as the finally block of handleLogin leaves it
ButtonAfterAttempt == [text |-> "Sign In", disabled |-> FALSE]

\* error.message || the default text
LoginErrorText(message) ==
    IF message = ""
    THEN "Invalid username/email or password. Please try again."
    ELSE message

\* the messages of the errors authenticate throws
LoginFailures == {"Invalid credentials"}

\* the part of the state the handlers below hand around
Session ==
    [ stored |-> storedToken, api |-> apiToken,
      loginHidden |-> loginPageHidden, profileHidden |-> profilePageHidden,
      view |-> profileView, mainError |-> mainContentError,
      data |-> data, cache |-> lastFetchedDataForResize,
      chart |-> chartInput, panel |-> piscinePanel, table |-> projectsTable ]

Install(s) ==
    /\ storedToken' = s.stored
    /\ apiToken' = s.api
    /\ loginPageHidden' = s.loginHidden
    /\ profilePageHidden' = s.profileHidden
    /\ profileView' = s.view
    /\ mainContentError' = s.mainError
    /\ data' = s.data
    /\ lastFetchedDataForResize' = s.cache
    /\ chartInput' = s.chart
    /\ piscinePanel' = s.panel
    /\ projectsTable' = s.table

\* handleLogout: both tokens removed, the model reset, the cache dropped,
\* the login page shown (the reset of the form fields holds no state here)
LoggedOut(s) ==
    [s EXCEPT !.stored = NoItem, !.api = NullToken, !.data = ResetData,
              !.cache = NullCache, !.loginHidden = FALSE,
              !.profileHidden = TRUE]

\* showProfile up to the call of loadProfileData
ShownProfile(s) ==
    [s EXCEPT !.loginHidden = TRUE, !.profileHidden = FALSE,
              !.view = "loading"]

\* loadProfileData from the point loadAllData has got to: nothing more
\* while it awaits; the cache, the displays and the charts once it has
\* resolved (displayUserInfo throws on the null user of a reset model);
\* the error, and the logout on an authorization error, once it rejected
Settle(run, d, s) ==
    IF run.result = "pending" THEN [s EXCEPT !.data = d]
    ELSE IF run.result = "resolved"
    THEN IF d.user = "null"
         THEN [s EXCEPT !.data = d, !.cache = <<d>>,
                        !.mainError = NullUserError.text, !.view = "shown"]
         ELSE LET shown == DisplayPiscineDetails(d)
              IN  [s EXCEPT !.data = shown.data, !.cache = <<shown.data>>,
                            !.panel = shown.panel,
                            !.table = PopulateProjectsTable(shown.data),
                            !.chart = GenerateCharts(FALSE, <<shown.data>>, shown.data),
                            !.view = "shown"]
    ELSE LET failed == [s EXCEPT !.data = d, !.mainError = run.error.text,
                                 !.view = "shown"]
         IN  IF IsAuthError(run.error) THEN LoggedOut(failed) ELSE failed

StepOf(handler, loader, outcome, run) ==
    [ handler |-> handler, loader |-> loader, outcome |-> outcome,
      started |-> run.started, failed |-> run.failed, result |-> run.result,
      sent |-> run.sent, error |-> run.error ]

NoRun ==
    [ awaiting |-> "idle", result |-> "none", started |-> <<>>,
      failed |-> {}, sent |-> 0, error |-> NoMessage ]

\* the calls in flight without the one at position p, and with one more
\* that awaits the named loader; calls that await the same loader are
\* alike, so the list is kept in the order of the loaders
Without(list, p) == SubSeq(list, 1, p - 1) \o SubSeq(list, p + 1, Len(list))

With(list, loader) ==
    IF loader = "idle" THEN list
    ELSE LET before == SelectSeq(list,
                 LAMBDA l : LoaderIndex(l) <= LoaderIndex(loader))
             after == SelectSeq(list,
                 LAMBDA l : LoaderIndex(l) > LoaderIndex(loader))
         IN  before \o <<loader>> \o after

\* the constructor and init(): the stored token, if any, is handed to the
\* API service and the profile is shown and loaded
InitSession ==
    /\ \E stored \in {NoItem} \cup Tokens :
        LET token == IF HasToken(stored) THEN stored ELSE UndefinedToken
            markup == [ stored |-> stored, api |-> token,
                        loginHidden |-> FALSE, profileHidden |-> TRUE,
                        view |-> "markup", mainError |-> "",
                        data |-> ResetData, cache |-> NullCache,
                        chart |-> <<>>, panel |-> BlankPanel,
                        table |-> BlankTable ]
            run == IF HasToken(token) THEN RunLoaders(1, token, <<>>, {})
                   ELSE NoRun
            after == IF HasToken(token)
                     THEN Settle(run, ResetData, ShownProfile(markup))
                     ELSE markup
        IN  /\ storedToken = after.stored
            /\ apiToken = after.api
            /\ loginPageHidden = after.loginHidden
            /\ profilePageHidden = after.profileHidden
            /\ profileView = after.view
            /\ mainContentError = after.mainError
            /\ data = after.data
            /\ lastFetchedDataForResize = after.cache
            /\ chartInput = after.chart
            /\ piscinePanel = after.panel
            /\ projectsTable = after.table
            /\ loads = With(<<>>, run.awaiting)
            /\ step = StepOf("start", "", "", run)
    /\ loginButton = IdleButton
    /\ loginError = NoLoginError
    /\ loginPending = FALSE
    /\ LabelIdle
    /\ ChartIdle
    /\ ActivityIdle
    /\ AxisIdle
    /\ FriendsIdle
    /\ DebounceIdle

\* handleLogin up to the await of authenticate
HandleLoginSubmit ==
    /\ ~loginPageHidden
    /\ ~loginButton.disabled
    /\ loginButton' = ButtonDuringAttempt
    /\ loginError' = [loginError EXCEPT !.hidden = TRUE]
    /\ loginPending' = TRUE
    /\ step' = StepOf("submit", "", "", NoRun)
    /\ UNCHANGED <<storedToken, apiToken, loginPageHidden, profilePageHidden,
                   profileView, mainContentError, data,
                   lastFetchedDataForResize, loads, chartInput, piscinePanel,
                   projectsTable>>
    /\ UNCHANGED <<labelVars, chartVars, activityVars, axisVars, friendVars,
                   debounceVars>>

\* handleLogin from the token authenticate returned
HandleLoginSucceeded ==
    /\ loginPending
    /\ Len(loads) < MaxLoads
    /\ \E body \in TokenBodies :
        /\ LET token == StringToken(StripQuotes(body))
               signedIn == [Session EXCEPT !.api = token, !.stored = token]
               run == RunLoaders(1, token, <<>>, {})
               after == Settle(run, data, ShownProfile(signedIn))
           IN  /\ Install(after)
               /\ loads' = With(loads, run.awaiting)
               /\ step' = StepOf("loginOk", "", "", run)
    /\ loginButton' = ButtonAfterAttempt
    /\ loginPending' = FALSE
    /\ UNCHANGED loginError
    /\ UNCHANGED <<labelVars, chartVars, activityVars, axisVars, friendVars,
                   debounceVars>>

\* handleLogin from the error authenticate threw
HandleLoginFailed ==
    /\ loginPending
    /\ \E message \in LoginFailures :
        loginError' = [hidden |-> FALSE, text |-> LoginErrorText(message)]
    /\ loginButton' = ButtonAfterAttempt
    /\ loginPending' = FALSE
    /\ step' = StepOf("loginFailed", "", "", NoRun)
    /\ UNCHANGED <<storedToken, apiToken, loginPageHidden, profilePageHidden,
                   profileView, mainContentError, data,
                   lastFetchedDataForResize, loads, chartInput, piscinePanel,
                   projectsTable>>
    /\ UNCHANGED <<labelVars, chartVars, activityVars, axisVars, friendVars,
                   debounceVars>>

\* the click on the logout button
HandleLogout ==
    /\ ~profilePageHidden
    /\ Install(LoggedOut(Session))
    /\ step' = StepOf("logout", "", "", NoRun)
    /\ UNCHANGED <<loads, loginButton, loginError, loginPending>>
    /\ UNCHANGED <<labelVars, chartVars, activityVars, axisVars, friendVars,
                   debounceVars>>

\* the answer to the query a loadProfileData call awaits, and that call up
\* to its next request or to its end
LoadResponse ==
    /\ \E p \in 1..Len(loads), outcome \in Outcomes :
        /\ LET loader == loads[p]
               assigned == IF outcome = "ok" THEN Assign(data, loader) ELSE data
               run == AfterResponse(loader, outcome, apiToken)
               after == Settle(run, assigned, Session)
           IN  /\ Install(after)
               /\ loads' = With(Without(loads, p), run.awaiting)
               /\ step' = StepOf("response", loader, outcome, run)
    /\ UNCHANGED <<loginButton, loginError, loginPending>>
    /\ UNCHANGED <<labelVars, chartVars, activityVars, axisVars, friendVars,
                   debounceVars>>

\* the condition of the debounced resize callback: the style of the profile
\* page is never set (pages are hidden by a class), so the cache decides
ResizeRenders(cache) == cache # NullCache

\* the debounced resize callback
HandleResize ==
    /\ chartInput' = IF ResizeRenders(lastFetchedDataForResize)
                     THEN GenerateCharts(TRUE, lastFetchedDataForResize, data)
                     ELSE chartInput
    /\ UNCHANGED <<storedToken, apiToken, loginPageHidden, profilePageHidden,
                   profileView, mainContentError, loginButton, loginError,
                   loginPending, data, lastFetchedDataForResize, loads,
                   piscinePanel, projectsTable, step>>
    /\ UNCHANGED <<labelVars, chartVars, activityVars, axisVars, friendVars,
                   debounceVars>>

NextSession ==
    \/ HandleLoginSubmit
    \/ HandleLoginSucceeded
    \/ HandleLoginFailed
    \/ HandleLogout
    \/ LoadResponse
    \/ HandleResize

SpecSession == InitSession /\ [][NextSession]_vars

---------------------------------------------------------------------------
(* Claims about the session, checked under SpecSession. *)

\* the fields of the model one loader assigns, by name of the loader,
\* written out without the operators of the model
LoaderFields(d) ==
    [ userInfo |-> <<d.user>>,
      transactions |-> <<d.transactions, d.skills, d.auditsDoneCount,
                         d.auditsReceivedCount, d.totalXpAmount>>,
      progress |-> <<d.progress>>,
      audits |-> <<d.audits>>,
      piscineStats |-> <<d.piscineStats>>,
      piscineDetails |-> <<d.piscineDetails>>,
      collaborators |-> <<d.collaborators>>,
      activity |-> <<d.activity>> ]

FixedOrder ==
    << "userInfo", "transactions", "progress", "audits",
       "piscineStats", "piscineDetails", "collaborators", "activity" >>

PlaceOf(loader) == CHOOSE i \in 1..8 : FixedOrder[i] = loader

\* C25: in every run of a loadProfileData call from an answer on,
\* loadAllData rejects exactly when a mandatory loader (user info,
\* transactions, progress, audits) failed, and that loader is the last one
\* started; an optional loader (piscine stats, piscine details,
\* collaborators, activity) that failed left its field as it was and the
\* loader after it was started; loaders start in the fixed order.
C25_OnlyMandatoryLoadersReject ==
    [][ step'.handler = "response" =>
        LET mandatory == {"userInfo", "transactions", "progress", "audits"}
            optional == {"piscineStats", "piscineDetails", "collaborators", "activity"}
            from == PlaceOf(step'.loader)
            count == Len(step'.started)
        IN  /\ (step'.result = "rejected") <=> (step'.failed \cap mandatory # {})
            /\ \A k \in 1..count : step'.started[k] = FixedOrder[from + k]
            /\ step'.result = "rejected" =>
                \A l \in step'.failed :
                    PlaceOf(l) = from + count
            /\ \A l \in step'.failed \cap optional :
                /\ LoaderFields(data')[l] = LoaderFields(data)[l]
                /\ PlaceOf(l) < 8 => PlaceOf(l) < from + count
            /\ step'.result = "resolved" => from + count = 8
            /\ step'.result = "pending" => count > 0
      ]_vars

C25_OptionalFailedLoadWentOn ==
    /\ step.handler = "response"
    /\ step.loader = "piscineStats"
    /\ step.outcome = "500"
    /\ step.started = <<"piscineDetails">>
    /\ step.result = "pending"
    /\ data.piscineStats = ResetData.piscineStats
    /\ data.audits # <<>>

\* the state handleLogout leaves: no token in localStorage or in the API
\* service, the model reset, no resize cache, the login page shown
IsLoggedOut ==
    /\ storedToken.kind = "null"
    /\ apiToken.kind = "null"
    /\ data = ResetData
    /\ lastFetchedDataForResize = <<>>
    /\ ~loginPageHidden
    /\ profilePageHidden

\* C26: when the query of a mandatory loader came back with status 401 or
\* 403, loadProfileData has finished and the application is logged out.
C26_AuthErrorLogsOut ==
    ( /\ step.handler = "response"
      /\ step.outcome \in {"401", "403"}
      /\ step.loader \in {"userInfo", "transactions", "progress", "audits"} )
    => (step.result = "rejected" /\ IsLoggedOut)

C26_ForbiddenDuringLoad ==
    /\ step.handler = "response"
    /\ step.outcome = "403"
    /\ step.loader = "progress"
    /\ mainContentError # ""
    /\ IsLoggedOut

\* C27: from handleLogout to the next successful login (the token of the
\* API service is null exactly then) the resize cache is null, the model
\* equals its reset state and no step, a resize included, renders charts.
C27_LoggedOutStaysReset ==
    [][ apiToken'.kind = "null" =>
            /\ lastFetchedDataForResize' = <<>>
            /\ data' = ResetData
            /\ apiToken.kind = "null" => chartInput' = chartInput
      ]_vars

TokensAgree ==
    \/ storedToken.kind = "null" /\ apiToken.kind \in {"undefined", "null"}
    \/ storedToken.kind = "string" /\ apiToken = storedToken

\* C28: the token of the API service and the 'jwtToken' entry agree, both
\* absent or both the same token, at the start and after every handler;
\* when a loadProfileData call goes on while no token is set, every query
\* it makes fails, nothing is sent, and the error it ends with is the
\* authentication error of makeGraphQLQuery.
C28_TokensAgreeAndGuardQueries ==
    [][ /\ TokensAgree
        /\ TokensAgree'
        /\ (step'.handler = "response" /\ step' # step /\ apiToken.kind # "string") =>
            /\ step'.sent = 0
            /\ \A k \in 1..Len(step'.started) : step'.started[k] \in step'.failed
            /\ (step'.result = "rejected" /\ step'.started # <<>>) =>
                step'.error.text = "Authentication token not found. Please login."
      ]_vars

C28_QueryWithoutToken ==
    /\ step.handler = "response"
    /\ step.outcome = "ok"
    /\ step.started # <<>>
    /\ step.sent = 0
    /\ step.result = "rejected"
    /\ apiToken.kind = "null"
    /\ storedToken.kind = "null"

\* C29: a failed login attempt leaves the tokens, the pages, the model, the
\* cache and the loads as they were and shows the error message; after
\* every attempt the login button is enabled with the text "Sign In".
C29_FailedLoginChangesNothing ==
    [][ /\ step'.handler = "loginFailed" =>
            /\ UNCHANGED <<storedToken, apiToken, loginPageHidden,
                           profilePageHidden, profileView, data,
                           lastFetchedDataForResize, loads>>
            /\ ~loginError'.hidden
            /\ loginError'.text # ""
            /\ loginButton' = [text |-> "Sign In", disabled |-> FALSE]
        /\ step'.handler = "loginOk" =>
            loginButton' = [text |-> "Sign In", disabled |-> FALSE]
      ]_vars

C29_LoginFailed ==
    /\ step.handler = "loginFailed"
    /\ ~loginError.hidden
    /\ loginButton = [text |-> "Sign In", disabled |-> FALSE]
    /\ storedToken.kind = "null"
    /\ ~loginPageHidden

---------------------------------------------------------------------------
(* The displays on their own: the model holds what the loaders stored, the *)
(* resize cache is the copy getAllData made of it (a new object whose      *)
(* fields are the lists of the model themselves), and the display methods  *)
(* loadProfileData calls next run in any order and any number of times.    *)

ProjectTxDomain ==
    { ProjectTx("", TRUE, 1), ProjectTx("xp", TRUE, 2),
      ProjectTx("up", TRUE, 3), ProjectTx("", FALSE, 2) }

DetailDomain == { Detail(1), Detail(2), Detail(3) }

LoadedData ==
    { [ResetData EXCEPT
            !.user = "user",
            !.transactions = txs,
            !.skills = <<"skill">>,
            !.piscineDetails =
                [ piscineGo |-> [total |-> 1500000, details |-> go],
                  piscineJs |-> [total |-> 14999, details |-> js],
                  cursus |-> [total |-> 1, details |-> <<>>] ]] :
        txs \in ListsUpTo(ProjectTxDomain, MaxRecords),
        go \in ListsUpTo(DetailDomain, MaxRecords),
        js \in { <<>>, <<Detail(1), Detail(2)>> } }

InitDisplay ==
    /\ \E token \in Tokens : storedToken = token /\ apiToken = token
    /\ loginPageHidden = TRUE /\ profilePageHidden = FALSE
    /\ profileView = "loading" /\ mainContentError = ""
    /\ loginButton = IdleButton /\ loginError = NoLoginError
    /\ loginPending = FALSE
    /\ data \in LoadedData
    /\ lastFetchedDataForResize = <<data>>
    /\ loads = <<>>
    /\ chartInput = <<>>
    /\ piscinePanel = BlankPanel
    /\ projectsTable = BlankTable
    /\ step = NoStep
    /\ LabelIdle
    /\ ChartIdle
    /\ ActivityIdle
    /\ AxisIdle
    /\ FriendsIdle
    /\ DebounceIdle

\* displayPiscineDetails: the sorted lists are those of the model, which
\* the cache holds too
ShowPiscineDetails ==
    /\ LET shown == DisplayPiscineDetails(data)
       IN  /\ data' = shown.data
           /\ lastFetchedDataForResize' =
                <<[lastFetchedDataForResize[1] EXCEPT
                        !.piscineDetails = shown.data.piscineDetails]>>
           /\ piscinePanel' = shown.panel
    /\ UNCHANGED <<storedToken, apiToken, loginPageHidden, profilePageHidden,
                   profileView, mainContentError, loginButton, loginError,
                   loginPending, loads, chartInput, projectsTable, step>>
    /\ UNCHANGED <<labelVars, chartVars, activityVars, axisVars, friendVars,
                   debounceVars>>

ShowProjectsTable ==
    /\ projectsTable' = PopulateProjectsTable(data)
    /\ UNCHANGED <<storedToken, apiToken, loginPageHidden, profilePageHidden,
                   profileView, mainContentError, loginButton, loginError,
                   loginPending, data, lastFetchedDataForResize, loads,
                   chartInput, piscinePanel, step>>
    /\ UNCHANGED <<labelVars, chartVars, activityVars, axisVars, friendVars,
                   debounceVars>>

ShowCharts ==
    /\ \E isResize \in BOOLEAN :
        chartInput' = GenerateCharts(isResize, lastFetchedDataForResize, data)
    /\ UNCHANGED <<storedToken, apiToken, loginPageHidden, profilePageHidden,
                   profileView, mainContentError, loginButton, loginError,
                   loginPending, data, lastFetchedDataForResize, loads,
                   piscinePanel, projectsTable, step>>
    /\ UNCHANGED <<labelVars, chartVars, activityVars, axisVars, friendVars,
                   debounceVars>>

NextDisplay == ShowPiscineDetails \/ ShowProjectsTable \/ ShowCharts

SpecDisplay == InitDisplay /\ [][NextDisplay]_vars

\* C30: a display leaves the data of the model and of the resize cache as
\* they were: every list has the same elements in the same order.
C30_DisplayLeavesDataUnchanged ==
    [][ /\ data' = data
        /\ lastFetchedDataForResize' = lastFetchedDataForResize
      ]_vars

====
